---- MODULE Spec2Model ----
(***************************************************************************)
(* Model of harmony's media ingestion pipeline: LibraryService (scan,      *)
(* processFiles, processFile, cleanupDeletedFiles, CancelScan), the        *)
(* Scanner walk and the Track/Album/Artist repositories it writes to.      *)
(***************************************************************************)
EXTENDS Integers, Sequences, FiniteSets, TLC

(* ------------------------------ bounds --------------------------------- *)
\* number of distinct audio file paths under the media root
NumFiles == 2
\* number of distinct tag contents (artist name / album title) a file can carry
NumMetas == 1
\* runtime.NumCPU() of the machine
NumCPU == 1
\* injected per-file failures (extraction, repository) per scan
MaxFaults == 1
\* runtime.NumCPU() of a machine on which the workers run in parallel
PoolCPU == 2
\* files under the media root of a library large enough for more than one
\* progress publication
PubFiles == 11

(* ------------------------- program constants --------------------------- *)
MaxWorkers == 8
PublishEvery == 10
ZeroTime == 0

\* the media root of a small library, of any library
FewPaths == 1..NumFiles
Paths == 1..(IF NumFiles > PubFiles THEN NumFiles ELSE PubFiles)
Metas == 1..NumMetas

Min2(a, b) == IF a < b THEN a ELSE b

\* the machine and the faults of its environment
VARIABLES
  numCPU,       \* runtime.NumCPU()
  maxFaults     \* injected per-file failures per scan
cfgVars == <<numCPU, maxFaults>>

\* workerCount := runtime.NumCPU(); if workerCount > 8 { workerCount = 8 }
WorkerCount == Min2(numCPU, MaxWorkers)
\* the goroutines processFiles can start on any of the machines, and those
\* it starts on this one
Workers == 1..Min2(IF NumCPU > PoolCPU THEN NumCPU ELSE PoolCPU, MaxWorkers)
ActiveWorkers == 1..WorkerCount
\* fileChan := make(chan scanner.FileInfo, workerCount*2)
ChanCap == WorkerCount * 2

VARIABLES
  \* --- environment: the media root on disk
  disk,         \* disk[p] = 0: no file at p; m in Metas: a file whose tags are m
  rootState,    \* "ok" | "missing" | "denied"
  \* --- repository tables
  tracks,       \* tracks[p]: the Track row with file_path p (unique index), or NoTrack
  albums,       \* set of Album rows [id, title, artist]
  artists,      \* set of Artist rows [id, name]
  \* --- LibraryService / Scanner fields
  scanning, cancelFunc, progress,
  ctxDone,      \* the scan's context has been cancelled
  knownFiles,   \* Scanner.knownFiles (keys; every value is the zero time)
  \* --- the scan goroutine
  scanpc, incremental, files, walkPos, sendIdx, fileChan, chanClosed, perr,
  deleted, deletedCount,
  cnt,          \* processedCount / newCount / updatedCount / errorCount
  \* --- the workers of processFiles
  wpc, wfile, wmeta, wartist, walbum, wisNew, wproc,
  crashed,      \* the process died of a nil-pointer panic
  \* --- history variables (observations the claims are stated on)
  ret,          \* result of the most recent FullScan/IncrementalScan call
  cancelStatus, \* status at which CancelScan first returned nil in this scan
  failedFiles,  \* files of this scan whose processFile returned an error
  removed,      \* some Track/Album/Artist row was removed during this scan
  fsChanged,    \* the media root changed since the last scan that ran to
                \* completed with no cancel request and no failed file
  startTracks,  \* the Track table at the admission of this scan
  active        \* scan calls admitted and not yet returned

envVars == <<disk, rootState>>
dbVars == <<tracks, albums, artists>>
svcVars == <<scanning, cancelFunc, progress, ctxDone, knownFiles>>
scanVars == <<scanpc, incremental, files, walkPos, sendIdx, fileChan,
              chanClosed, perr, deleted, deletedCount, cnt>>
wVars == <<wpc, wfile, wmeta, wartist, walbum, wisNew, wproc>>
histVars == <<ret, cancelStatus, failedFiles, removed, fsChanged, startTracks, active>>
libVars == <<envVars, dbVars, svcVars, scanVars, wVars, crashed, histVars>>

\* --- LibraryHandler.Scan: the POST /library/scan requests
VARIABLES
  hpc,          \* hpc[r]: "none" | "checked" | "conflict" | "accepted"
  hinc,         \* hinc[r]: req.Incremental
  hres,         \* hres[r]: what the request's goroutine got from the service
  overlap       \* (history) two requests were in the handler at the same time

hVars == <<hpc, hinc, hres, overlap>>

\* --- Transcoder and its cache directory
VARIABLES
  srcMod,       \* modification time of the source audio file, in clock ticks
  cfiles,       \* the files of the cache directory, and those unlinked while
                \* an engine still writes to them: [name, writers, data]
  cpc,          \* cpc[c]: where call c stands
  cop,          \* cop[c]: the operation call c executes
  cprof,        \* cprof[c]: its profile
  ckey,         \* ckey[c]: the cache key it computed
  cwritten,     \* cwritten[c]: chunks its engine run has produced so far
  cret,         \* cret[c]: what the call returned
  cmod,         \* (history) the source modification time ckey[c] was made from
  \* --- the size accounting and eviction of the cache
  maxSize,      \* int64(t.maxCacheGB * 1024 * 1024 * 1024)
  cacheSize,    \* t.cacheSize
  now,          \* the file system's clock
  upd,          \* upd[path]: updateCacheSize(path) goroutines not yet run
  calcpc,       \* the calculateCacheSize goroutine started by New
  calcSum,      \* the size it summed up
  clpc,         \* clpc[k]: where cleanupCache goroutine k stands
  clfiles,      \* clfiles[k]: the entries it listed and has not yet visited
  clcur,        \* clcur[k]: its currentSize
  overCeiling,  \* (history) an added entry took the cache above the ceiling
                \* and the cache has not been back at 80% of it since
  evictMax      \* (history) latest modification time of an evicted file

evVars == <<maxSize, cacheSize, now, upd, calcpc, calcSum, clpc, clfiles,
            clcur, overCeiling, evictMax>>
tcVars == <<srcMod, cfiles, cpc, cop, cprof, ckey, cwritten, cret, cmod, evVars>>

\* the stream handler's history: the <<quality, source state>> pairs a request
\* has delivered in full, and whether a request began after such a delivery
VARIABLES streamed, clater
stVars == <<streamed, clater>>
\* a range request: the file's size, the range the client means, the Range
\* header that says so, the response
VARIABLES rSize, rReq, rHeader, rResp
rgVars == <<rSize, rReq, rHeader, rResp>>
\* a metadata extraction: the path's components, the file, what Extract returned
VARIABLES mPath, mFile, mRet
mdVars == <<mPath, mFile, mRet>>
\* a conditional GET: the file's modification time, the Last-Modified value
\* the client holds and the modification time it was given for, the request,
\* the response
VARIABLES qMod, qLast, qLastMod, qReq, qResp
cdVars == <<qMod, qLast, qLastMod, qReq, qResp>>
fnVars == <<rgVars, mdVars, cdVars>>
\* the artwork goroutines of findOrCreateAlbum and the artwork cache
VARIABLES
  artJobs,      \* the Album rows whose artwork goroutine has not run yet
  artCache,     \* ids of the albums with a cached original.jpg
  wart          \* (history) wart[w]: what findOrCreateAlbum last did for worker w
awVars == <<artJobs, artCache, wart>>
\* (history) taken[p]: the workers that began processFile(p) in this scan
VARIABLES taken
libAux == <<awVars, cfgVars, taken>>
auxVars == <<hVars, tcVars, stVars, fnVars, libAux>>
\* what a step of one component leaves alone outside the library service
hOthers == <<tcVars, stVars, fnVars, libAux>>
tcOthers == <<hVars, stVars, fnVars, libAux>>
stOthers == <<hVars, fnVars, libAux>>
vars == <<libVars, auxVars>>

NoTrack == [album |-> 0, artist |-> 0]

ScanStatusIdle == "idle"
ScanStatusScanning == "scanning"
ScanStatusProcessing == "processing"
ScanStatusCompleted == "completed"
ScanStatusFailed == "failed"
ScanStatusCancelled == "cancelled"

ScanProgress(status) ==
  [Status |-> status, TotalFiles |-> 0, ProcessedFiles |-> 0, NewTracks |-> 0,
   UpdatedTracks |-> 0, DeletedTracks |-> 0, ErrorCount |-> 0]

ZeroCnt == [processed |-> 0, new |-> 0, upd |-> 0, err |-> 0]

(* ------------------------------ file system ---------------------------- *)
\* the file is reachable below the media root
Exists(p) == rootState = "ok" /\ disk[p] # 0
\* os.IsNotExist(os.Stat(p)): a permission error is not "not exist"
StatNotExist(p) == rootState = "missing" \/ (rootState = "ok" /\ disk[p] = 0)
\* info.ModTime() of a file on disk: always after the zero time
ModTime(p) == 1
\* tags of the file: artist name and album title
ArtistOf(m) == m
AlbumOf(m) == m

\* the service on a machine of cpu processors, a media root that holds
\* the given files, an empty database and an empty artwork cache
LibraryNew(cpu, faults, onDisk) ==
  /\ numCPU = cpu
  /\ maxFaults = faults
  /\ artJobs = {}
  /\ artCache = {}
  /\ wart = [w \in Workers |-> "none"]
  /\ taken = [p \in Paths |-> <<>>]
  /\ disk = onDisk
  /\ rootState = "ok"
  /\ tracks = [p \in Paths |-> NoTrack]
  /\ albums = {}
  /\ artists = {}
  /\ scanning = FALSE
  /\ cancelFunc = FALSE
  /\ progress = ScanProgress(ScanStatusIdle)
  /\ ctxDone = FALSE
  /\ knownFiles = {}
  /\ scanpc = "idle"
  /\ incremental = FALSE
  /\ files = <<>>
  /\ walkPos = 0
  /\ sendIdx = 0
  /\ fileChan = <<>>
  /\ chanClosed = FALSE
  /\ perr = "nil"
  /\ deleted = {}
  /\ deletedCount = 0
  /\ cnt = ZeroCnt
  /\ wpc = [w \in Workers |-> "off"]
  /\ wfile = [w \in Workers |-> 0]
  /\ wmeta = [w \in Workers |-> 0]
  /\ wartist = [w \in Workers |-> 0]
  /\ walbum = [w \in Workers |-> 0]
  /\ wisNew = [w \in Workers |-> FALSE]
  /\ wproc = [w \in Workers |-> 0]
  /\ crashed = FALSE
  /\ ret = "none"
  /\ cancelStatus = "none"
  /\ failedFiles = {}
  /\ removed = FALSE
  /\ fsChanged = TRUE
  /\ startTracks = [p \in Paths |-> NoTrack]
  /\ active = 0

LibraryInit == LibraryNew(NumCPU, MaxFaults, [p \in Paths |-> 0])

(* ------------------------------ environment ---------------------------- *)
\* The media root only changes between scans.
EnvIdle == ~scanning /\ ~crashed

WriteFile(p, m) ==
  /\ EnvIdle
  /\ disk[p] # m
  /\ disk' = [disk EXCEPT ![p] = m]
  /\ fsChanged' = TRUE
  /\ UNCHANGED <<rootState, dbVars, svcVars, scanVars, wVars, crashed,
                 ret, cancelStatus, failedFiles, removed, startTracks, active>>

RemoveFile(p) ==
  /\ EnvIdle
  /\ disk[p] # 0
  /\ disk' = [disk EXCEPT ![p] = 0]
  /\ fsChanged' = TRUE
  /\ UNCHANGED <<rootState, dbVars, svcVars, scanVars, wVars, crashed,
                 ret, cancelStatus, failedFiles, removed, startTracks, active>>

SetRoot(s) ==
  /\ EnvIdle
  /\ rootState # s
  /\ rootState' = s
  /\ fsChanged' = TRUE
  /\ UNCHANGED <<disk, dbVars, svcVars, scanVars, wVars, crashed,
                 ret, cancelStatus, failedFiles, removed, startTracks, active>>

(* --------------------------- LibraryService.scan ------------------------ *)
\* s.progress.Status = status
setStatus(pr, status) == [pr EXCEPT !.Status = status]

\* if s.scanning { return ErrScanInProgress }
ScanBusyNever == FALSE
ScanBusy == scanning

\* s.progress = ScanProgress{Status: ScanStatusScanning, StartedAt: now}
AdmitProgressSkipsScanning == ScanProgress(ScanStatusProcessing)
AdmitProgress == ScanProgress(ScanStatusScanning)

\* FullScan (inc = FALSE) / IncrementalScan (inc = TRUE) called while a scan
\* is active: the call returns ErrScanInProgress.
ScanRejected(inc) ==
  /\ ~crashed
  /\ ScanBusy
  /\ ret' = "ErrScanInProgress"
  /\ UNCHANGED <<envVars, dbVars, svcVars, scanVars, wVars, crashed,
                 cancelStatus, failedFiles, removed, fsChanged, startTracks, active>>

\* FullScan / IncrementalScan admitted: lines 162-176.
ScanAdmit(inc) ==
  /\ ~crashed
  /\ ~ScanBusy
  /\ cancelFunc' = TRUE
  /\ scanning' = TRUE
  /\ ctxDone' = FALSE
  /\ progress' = AdmitProgress
  /\ incremental' = inc
  /\ scanpc' = IF inc THEN "load" ELSE "walk"
  /\ files' = <<>>
  /\ walkPos' = 0
  /\ sendIdx' = 0
  /\ fileChan' = <<>>
  /\ chanClosed' = FALSE
  /\ perr' = "nil"
  /\ deleted' = {}
  /\ deletedCount' = 0
  /\ cnt' = ZeroCnt
  /\ wpc' = [w \in Workers |-> "off"]
  /\ wfile' = [w \in Workers |-> 0]
  /\ wmeta' = [w \in Workers |-> 0]
  /\ wartist' = [w \in Workers |-> 0]
  /\ walbum' = [w \in Workers |-> 0]
  /\ wisNew' = [w \in Workers |-> FALSE]
  /\ wproc' = [w \in Workers |-> 0]
  /\ ret' = "admitted"
  /\ cancelStatus' = "none"
  /\ failedFiles' = {}
  /\ removed' = FALSE
  /\ startTracks' = tracks
  /\ active' = active + 1
  /\ UNCHANGED <<envVars, dbVars, knownFiles, crashed, fsChanged>>

\* A repository call made with a cancelled context fails before touching the
\* table (database/sql checks ctx.Done() when it acquires the connection).
CtxErr == ctxDone

\* trackRepo.GetAllFilePaths: the file_path column of every Track row
GetAllFilePaths == {p \in Paths : tracks[p] # NoTrack}

\* loadKnownFiles (incremental only), lines 195-200 and 429-444.
LoadKnownFiles ==
  /\ ~crashed
  /\ scanpc = "load"
  /\ IF CtxErr
       THEN /\ progress' = setStatus(progress, ScanStatusFailed)
            /\ scanpc' = "exit"
            /\ UNCHANGED knownFiles
       ELSE /\ knownFiles' = GetAllFilePaths
            /\ scanpc' = "walk"
            /\ UNCHANGED progress
  /\ UNCHANGED <<envVars, dbVars, scanning, cancelFunc, ctxDone, incremental,
                 files, walkPos, sendIdx, fileChan, chanClosed, perr, deleted,
                 deletedCount, cnt, wVars, crashed, histVars>>

(* ------------------------- Scanner.DiscoverFiles ------------------------ *)
\* entries WalkDir still has to visit, in lexical order
Remaining(pos) == {p \in Paths : p > pos /\ Exists(p)}
SetMin(S) == CHOOSE x \in S : \A y \in S : x <= y
SetMax(S) == CHOOSE x \in S : \A y \in S : x >= y

\* fileInfo.IsNew / fileInfo.IsModified, lines 141-150 of the scanner
IsNew(p) == p \notin knownFiles
IsModified(p) == p \in knownFiles /\ ModTime(p) > ZeroTime

RECURSIVE SelectSeq2(_, _)
SelectSeq2(s, keep) ==
  IF s = <<>> THEN <<>>
  ELSE IF Head(s) \in keep THEN <<Head(s)>> \o SelectSeq2(Tail(s), keep)
       ELSE SelectSeq2(Tail(s), keep)

\* DiscoverNewAndModified keeps the new or modified files; DiscoverFiles all
CandidatesTwice(all) == all \o all
Candidates(all) ==
  IF incremental
    THEN SelectSeq2(all, {p \in Paths : IsNew(p) \/ IsModified(p)})
    ELSE all

\* WalkDir visits the root: Lstat failure is passed to the callback, which
\* logs it and returns nil; so does a ReadDir failure after the root visit.
WalkRoot ==
  /\ ~crashed
  /\ scanpc = "walk"
  /\ IF rootState = "missing"
       THEN scanpc' = "walked" /\ UNCHANGED progress
       ELSE IF ctxDone
         THEN /\ progress' = setStatus(progress, ScanStatusFailed)
              /\ scanpc' = "exit"
         ELSE /\ scanpc' = IF Remaining(0) = {} THEN "walked" ELSE "visit"
              /\ UNCHANGED progress
  /\ UNCHANGED <<envVars, dbVars, scanning, cancelFunc, ctxDone, knownFiles,
                 incremental, files, walkPos, sendIdx, fileChan, chanClosed,
                 perr, deleted, deletedCount, cnt, wVars, crashed, histVars>>

\* the callback on the next file: cancellation check, then append
WalkVisit ==
  /\ ~crashed
  /\ scanpc = "visit"
  /\ LET p == SetMin(Remaining(walkPos)) IN
     IF ctxDone
       THEN /\ progress' = setStatus(progress, ScanStatusFailed)
            /\ scanpc' = "exit"
            /\ files' = <<>>
            /\ UNCHANGED walkPos
       ELSE /\ files' = Append(files, p)
            /\ walkPos' = p
            /\ scanpc' = IF Remaining(p) = {} THEN "walked" ELSE "visit"
            /\ UNCHANGED progress
  /\ UNCHANGED <<envVars, dbVars, scanning, cancelFunc, ctxDone, knownFiles,
                 incremental, sendIdx, fileChan, chanClosed, perr, deleted,
                 deletedCount, cnt, wVars, crashed, histVars>>

\* where scan continues when processFiles returned nil
AfterProcessNil == IF incremental THEN "complete" ELSE "cleanup"

\* lines 215-218 and the start of processFiles (251-303)
SetProcessing ==
  /\ ~crashed
  /\ scanpc = "walked"
  /\ LET cand == Candidates(files) IN
     /\ files' = cand
     /\ progress' = [progress EXCEPT !.TotalFiles = Len(cand),
                                     !.Status = ScanStatusProcessing]
     /\ IF Len(cand) = 0
          THEN scanpc' = AfterProcessNil /\ UNCHANGED <<wpc, sendIdx>>
          ELSE /\ scanpc' = "dispatch"
               /\ sendIdx' = 1
               /\ wpc' = [w \in Workers |->
                            IF w \in ActiveWorkers THEN "recv" ELSE "off"]
  /\ UNCHANGED <<envVars, dbVars, scanning, cancelFunc, ctxDone, knownFiles,
                 incremental, walkPos, fileChan, chanClosed, perr, deleted,
                 deletedCount, cnt, wfile, wmeta, wartist, walbum, wisNew, wproc,
                 crashed, histVars>>

(* ----------------------------- processFiles ---------------------------- *)
\* the send loop, lines 305-316: the select takes either ready case
Dispatch ==
  /\ ~crashed
  /\ scanpc = "dispatch"
  /\ \/ /\ ctxDone
        /\ chanClosed' = TRUE
        /\ perr' = "canceled"
        /\ scanpc' = "wait"
        /\ UNCHANGED <<fileChan, sendIdx>>
     \/ /\ Len(fileChan) < ChanCap
        /\ fileChan' = Append(fileChan, files[sendIdx])
        /\ IF sendIdx = Len(files)
             THEN chanClosed' = TRUE /\ scanpc' = "wait" /\ UNCHANGED sendIdx
             ELSE sendIdx' = sendIdx + 1 /\ UNCHANGED <<chanClosed, scanpc>>
        /\ UNCHANGED perr
  /\ UNCHANGED <<envVars, dbVars, svcVars, incremental, files, walkPos,
                 deleted, deletedCount, cnt, wVars, crashed, histVars>>

\* wg.Wait() returned; lines 222-229
WaitWorkers ==
  /\ ~crashed
  /\ scanpc = "wait"
  /\ \A w \in ActiveWorkers : wpc[w] = "done"
  /\ IF perr = "canceled"
       THEN /\ progress' = setStatus(progress, ScanStatusCancelled)
            /\ scanpc' = "exit"
       ELSE /\ scanpc' = AfterProcessNil
            /\ UNCHANGED progress
  /\ UNCHANGED <<envVars, dbVars, scanning, cancelFunc, ctxDone, knownFiles,
                 incremental, files, walkPos, sendIdx, fileChan, chanClosed,
                 perr, deleted, deletedCount, cnt, wVars, crashed, histVars>>

\* an injected failure of the extractor or of a repository call
CanFault == Cardinality(failedFiles) < maxFaults

\* atomic.AddInt64 on errorCount / newCount / updatedCount, then processedCount
CountFileDropsErrors(c, kind) ==
  IF kind = "err" THEN [c EXCEPT !.processed = @ + 1]
  ELSE [c EXCEPT ![kind] = @ + 1, !.processed = @ + 1]
CountFile(c, kind) == [c EXCEPT ![kind] = @ + 1, !.processed = @ + 1]

\* if processed%10 == 0 || processed == int64(len(files))
PublishDue(processed) ==
  processed % PublishEvery = 0 \/ processed = Len(files)

\* lines 279-300: the outcome of processFile(f) is counted; the worker then
\* publishes or takes the next file
FileDone(w, f, kind) ==
  LET c == CountFile(cnt, kind) IN
  /\ cnt' = c
  /\ failedFiles' = IF kind = "err" THEN failedFiles \cup {f} ELSE failedFiles
  /\ wmeta' = [wmeta EXCEPT ![w] = 0]
  /\ wartist' = [wartist EXCEPT ![w] = 0]
  /\ walbum' = [walbum EXCEPT ![w] = 0]
  /\ wisNew' = [wisNew EXCEPT ![w] = FALSE]
  /\ IF PublishDue(c.processed)
       THEN /\ wpc' = [wpc EXCEPT ![w] = "publish"]
            /\ wfile' = [wfile EXCEPT ![w] = f]
            /\ wproc' = [wproc EXCEPT ![w] = c.processed]
       ELSE /\ wpc' = [wpc EXCEPT ![w] = "recv"]
            /\ wfile' = [wfile EXCEPT ![w] = 0]
            /\ UNCHANGED wproc

\* for fileInfo := range fileChan { select { case <-ctx.Done(): return ... } }
\* followed by metadataExtractor.Extract (which fails when the file cannot
\* be opened)
WorkerRecv(w) ==
  /\ ~crashed
  /\ wpc[w] = "recv"
  /\ IF fileChan = <<>>
       THEN /\ chanClosed
            /\ wpc' = [wpc EXCEPT ![w] = "done"]
            /\ UNCHANGED <<fileChan, cnt, failedFiles, wfile, wmeta, wartist,
                           walbum, wisNew, wproc>>
       ELSE LET f == Head(fileChan) IN
            /\ fileChan' = Tail(fileChan)
            /\ IF ctxDone
                 THEN /\ wpc' = [wpc EXCEPT ![w] = "done"]
                      /\ UNCHANGED <<cnt, failedFiles, wfile, wmeta, wartist,
                                     walbum, wisNew, wproc>>
                 ELSE \/ /\ CanFault
                         /\ FileDone(w, f, "err")
                      \/ /\ wpc' = [wpc EXCEPT ![w] = "findArtist"]
                         /\ wfile' = [wfile EXCEPT ![w] = f]
                         /\ wmeta' = [wmeta EXCEPT ![w] = disk[f]]
                         /\ UNCHANGED <<cnt, failedFiles, wartist, walbum,
                                        wisNew, wproc>>
  /\ UNCHANGED <<envVars, dbVars, svcVars, scanpc, incremental, files, walkPos,
                 sendIdx, chanClosed, perr, deleted, deletedCount, crashed,
                 ret, cancelStatus, removed, fsChanged, startTracks, active>>

\* GenerateID returns an identifier that no row, reference or worker holds.
\* Identifiers are only compared, so a fresh one is named after the row's key
\* and the least free duplicate index.
UsedIds == {a.id : a \in artists} \cup {a.id : a \in albums}
             \cup {a.id : a \in artJobs} \cup artCache
             \cup {a.artist : a \in albums}
             \cup {tracks[p].album : p \in Paths}
             \cup {tracks[p].artist : p \in Paths}
             \cup {wartist[w] : w \in Workers} \cup {walbum[w] : w \in Workers}
IdBase == 10
GenerateID(key) ==
  key * IdBase +
    (CHOOSE k \in 1..(IdBase - 1) :
       /\ key * IdBase + k \notin UsedIds
       /\ \A j \in 1..(k - 1) : key * IdBase + j \in UsedIds)
ArtistKey(name) == name
AlbumKey(title, artistID) == title * IdBase * IdBase + artistID

\* First(&artist) with name = ?: the matching row with the least primary key
FindByName(name) ==
  LET m == {a \in artists : a.name = name} IN
  IF m = {} THEN 0 ELSE SetMin({a.id : a \in m})

\* First(&album) with title = ? AND artist_id = ?
FindByTitleAndArtist(title, artistID) ==
  LET m == {a \in albums : a.title = title /\ a.artist = artistID} IN
  IF m = {} THEN 0 ELSE SetMin({a.id : a \in m})

\* the part of a worker step that fails the file
FailFile(w) ==
  /\ FileDone(w, wfile[w], "err")
  /\ UNCHANGED <<dbVars, crashed>>

\* artistRepo.FindOrCreate, the FindByName half
WorkerFindArtist(w) ==
  /\ ~crashed
  /\ wpc[w] = "findArtist"
  /\ \/ /\ CtxErr \/ CanFault
        /\ FailFile(w)
     \/ /\ ~CtxErr
        /\ LET id == FindByName(ArtistOf(wmeta[w])) IN
           IF id # 0
             THEN /\ wartist' = [wartist EXCEPT ![w] = id]
                  /\ wpc' = [wpc EXCEPT ![w] = "findAlbum"]
             ELSE /\ wpc' = [wpc EXCEPT ![w] = "createArtist"]
                  /\ UNCHANGED wartist
        /\ UNCHANGED <<dbVars, crashed, cnt, failedFiles, wfile, wmeta, walbum,
                       wisNew, wproc>>
  /\ UNCHANGED <<envVars, svcVars, scanpc, incremental, files, walkPos,
                 sendIdx, fileChan, chanClosed, perr, deleted, deletedCount,
                 ret, cancelStatus, removed, fsChanged, startTracks, active>>

\* artistRepo.FindOrCreate, the Create half
WorkerCreateArtist(w) ==
  /\ ~crashed
  /\ wpc[w] = "createArtist"
  /\ \/ /\ CtxErr \/ CanFault
        /\ FailFile(w)
     \/ /\ ~CtxErr
        /\ LET id == GenerateID(ArtistKey(ArtistOf(wmeta[w]))) IN
           /\ artists' = artists \cup {[id |-> id, name |-> ArtistOf(wmeta[w])]}
           /\ wartist' = [wartist EXCEPT ![w] = id]
        /\ wpc' = [wpc EXCEPT ![w] = "findAlbum"]
        /\ UNCHANGED <<tracks, albums, crashed, cnt, failedFiles, wfile, wmeta,
                       walbum, wisNew, wproc>>
  /\ UNCHANGED <<envVars, svcVars, scanpc, incremental, files, walkPos,
                 sendIdx, fileChan, chanClosed, perr, deleted, deletedCount,
                 ret, cancelStatus, removed, fsChanged, startTracks, active>>

\* findOrCreateAlbum, the FindByTitleAndArtist half
WorkerFindAlbum(w) ==
  /\ ~crashed
  /\ wpc[w] = "findAlbum"
  /\ \/ /\ CtxErr \/ CanFault
        /\ FailFile(w)
     \/ /\ ~CtxErr
        /\ LET id == FindByTitleAndArtist(AlbumOf(wmeta[w]), wartist[w]) IN
           IF id # 0
             THEN /\ walbum' = [walbum EXCEPT ![w] = id]
                  /\ wpc' = [wpc EXCEPT ![w] = "findTrack"]
             ELSE /\ wpc' = [wpc EXCEPT ![w] = "createAlbum"]
                  /\ UNCHANGED walbum
        /\ UNCHANGED <<dbVars, crashed, cnt, failedFiles, wfile, wmeta, wartist,
                       wisNew, wproc>>
  /\ UNCHANGED <<envVars, svcVars, scanpc, incremental, files, walkPos,
                 sendIdx, fileChan, chanClosed, perr, deleted, deletedCount,
                 ret, cancelStatus, removed, fsChanged, startTracks, active>>

\* findOrCreateAlbum, the Create half
WorkerCreateAlbum(w) ==
  /\ ~crashed
  /\ wpc[w] = "createAlbum"
  /\ \/ /\ CtxErr \/ CanFault
        /\ FailFile(w)
     \/ /\ ~CtxErr
        /\ LET id == GenerateID(AlbumKey(AlbumOf(wmeta[w]), wartist[w])) IN
           /\ albums' = albums \cup {[id |-> id, title |-> AlbumOf(wmeta[w]),
                                      artist |-> wartist[w]]}
           /\ walbum' = [walbum EXCEPT ![w] = id]
        /\ wpc' = [wpc EXCEPT ![w] = "findTrack"]
        /\ UNCHANGED <<tracks, artists, crashed, cnt, failedFiles, wfile, wmeta,
                       wartist, wisNew, wproc>>
  /\ UNCHANGED <<envVars, svcVars, scanpc, incremental, files, walkPos,
                 sendIdx, fileChan, chanClosed, perr, deleted, deletedCount,
                 ret, cancelStatus, removed, fsChanged, startTracks, active>>

\* trackRepo.FindByFilePath and isNew := errors.Is(err, ErrTrackNotFound).
\* Any other error leaves isNew false and existingTrack nil: the update
\* branch dereferences nil and the process panics.
WorkerFindTrack(w) ==
  /\ ~crashed
  /\ wpc[w] = "findTrack"
  /\ \/ /\ CtxErr \/ CanFault
        /\ crashed' = TRUE
        /\ UNCHANGED <<wpc, wisNew>>
     \/ /\ ~CtxErr
        /\ wisNew' = [wisNew EXCEPT ![w] = (tracks[wfile[w]] = NoTrack)]
        /\ wpc' = [wpc EXCEPT ![w] = "saveTrack"]
        /\ UNCHANGED crashed
  /\ UNCHANGED <<envVars, dbVars, svcVars, scanVars, wfile, wmeta, wartist,
                 walbum, wproc, histVars>>

\* trackRepo.Create (isNew) or trackRepo.Update; file_path has a unique index
WorkerSaveTrack(w) ==
  /\ ~crashed
  /\ wpc[w] = "saveTrack"
  /\ \/ /\ CtxErr \/ CanFault \/ (wisNew[w] /\ tracks[wfile[w]] # NoTrack)
        /\ FailFile(w)
     \/ /\ ~CtxErr
        /\ wisNew[w] => tracks[wfile[w]] = NoTrack
        /\ tracks' = [tracks EXCEPT ![wfile[w]] =
                        [album |-> walbum[w], artist |-> wartist[w]]]
        /\ FileDone(w, wfile[w], IF wisNew[w] THEN "new" ELSE "upd")
        /\ UNCHANGED <<albums, artists, crashed>>
  /\ UNCHANGED <<envVars, svcVars, scanpc, incremental, files, walkPos,
                 sendIdx, fileChan, chanClosed, perr, deleted, deletedCount,
                 ret, cancelStatus, removed, fsChanged, startTracks, active>>

\* lines 292-298: the counters are read while s.mu is held
Published(pr, processed) ==
  [pr EXCEPT !.ProcessedFiles = processed, !.NewTracks = cnt.new,
             !.UpdatedTracks = cnt.upd, !.ErrorCount = cnt.err]

WorkerPublish(w) ==
  /\ ~crashed
  /\ wpc[w] = "publish"
  /\ progress' = Published(progress, wproc[w])
  /\ wpc' = [wpc EXCEPT ![w] = "recv"]
  /\ wfile' = [wfile EXCEPT ![w] = 0]
  /\ wproc' = [wproc EXCEPT ![w] = 0]
  /\ UNCHANGED <<envVars, dbVars, scanning, cancelFunc, ctxDone, knownFiles,
                 scanVars, wmeta, wartist, walbum, wisNew, crashed, histVars>>

(* -------------------------- cleanupDeletedFiles ------------------------- *)
\* Scanner.FindDeletedFiles: the cancellation check sits inside the loop
\* over knownFiles, so an empty snapshot never reports the cancellation
FindDeletedFiles == {p \in knownFiles : StatNotExist(p)}

CleanupFind ==
  /\ ~crashed
  /\ scanpc = "cleanup"
  /\ IF knownFiles # {} /\ ctxDone
       THEN scanpc' = "complete" /\ UNCHANGED deleted
       ELSE scanpc' = "delete" /\ deleted' = FindDeletedFiles
  /\ UNCHANGED <<envVars, dbVars, svcVars, incremental, files, walkPos,
                 sendIdx, fileChan, chanClosed, perr, deletedCount, cnt,
                 wVars, crashed, histVars>>

\* DELETE FROM tracks WHERE file_path = ?
DeleteByFilePath(t, p) == IF CtxErr THEN t ELSE [t EXCEPT ![p] = NoTrack]

\* one iteration of the loop at lines 454-460; the order is that of a map
CleanupDelete ==
  /\ ~crashed
  /\ scanpc = "delete"
  /\ \E p \in deleted :
       /\ deleted' = deleted \ {p}
       /\ tracks' = DeleteByFilePath(tracks, p)
       /\ deletedCount' = IF CtxErr THEN deletedCount ELSE deletedCount + 1
       /\ removed' = (removed \/ tracks'[p] # tracks[p])
  /\ UNCHANGED <<envVars, albums, artists, svcVars, scanpc, incremental,
                 files, walkPos, sendIdx, fileChan, chanClosed, perr, cnt,
                 wVars, crashed, ret, cancelStatus, failedFiles, fsChanged,
                 startTracks, active>>

\* lines 462-467
CleanupCount ==
  /\ ~crashed
  /\ scanpc = "delete"
  /\ deleted = {}
  /\ progress' = [progress EXCEPT !.DeletedTracks = deletedCount]
  /\ scanpc' = IF deletedCount > 0 THEN "delAlbums" ELSE "complete"
  /\ UNCHANGED <<envVars, dbVars, scanning, cancelFunc, ctxDone, knownFiles,
                 incremental, files, walkPos, sendIdx, fileChan, chanClosed,
                 perr, deleted, deletedCount, cnt, wVars, crashed, histVars>>

\* AlbumRepository.DeleteEmpty: albums left with zero tracks
AlbumDeleteEmpty(al) ==
  IF CtxErr THEN al
  ELSE {a \in al : \E p \in Paths : tracks[p].album = a.id}

\* ArtistRepository.DeleteEmpty:
\* DELETE FROM artists WHERE id NOT IN (SELECT DISTINCT artist_id FROM albums)
ArtistDeleteEmpty(ar) ==
  IF CtxErr THEN ar
  ELSE {a \in ar : \E al \in albums : al.artist = a.id}

CleanupAlbums ==
  /\ ~crashed
  /\ scanpc = "delAlbums"
  /\ albums' = AlbumDeleteEmpty(albums)
  /\ removed' = (removed \/ albums' # albums)
  /\ scanpc' = "delArtists"
  /\ UNCHANGED <<envVars, tracks, artists, svcVars, incremental, files,
                 walkPos, sendIdx, fileChan, chanClosed, perr, deleted,
                 deletedCount, cnt, wVars, crashed, ret, cancelStatus,
                 failedFiles, fsChanged, startTracks, active>>

CleanupArtists ==
  /\ ~crashed
  /\ scanpc = "delArtists"
  /\ artists' = ArtistDeleteEmpty(artists)
  /\ removed' = (removed \/ artists' # artists)
  /\ scanpc' = "complete"
  /\ UNCHANGED <<envVars, tracks, albums, svcVars, incremental, files,
                 walkPos, sendIdx, fileChan, chanClosed, perr, deleted,
                 deletedCount, cnt, wVars, crashed, ret, cancelStatus,
                 failedFiles, fsChanged, startTracks, active>>

\* s.setStatus(ScanStatusCompleted), line 238
Complete ==
  /\ ~crashed
  /\ scanpc = "complete"
  /\ progress' = setStatus(progress, ScanStatusCompleted)
  /\ scanpc' = "exit"
  /\ UNCHANGED <<envVars, dbVars, scanning, cancelFunc, ctxDone, knownFiles,
                 incremental, files, walkPos, sendIdx, fileChan, chanClosed,
                 perr, deleted, deletedCount, cnt, wVars, crashed, histVars>>

\* the scan ran to completed without a cancel request or a failed file
CleanRun ==
  /\ progress.Status = ScanStatusCompleted
  /\ cancelStatus = "none"
  /\ progress.ErrorCount = 0

\* the deferred function, lines 178-185; the goroutine's locals and the
\* scan's context end with it
ScanExit ==
  /\ ~crashed
  /\ scanpc = "exit"
  /\ scanning' = FALSE
  /\ cancelFunc' = FALSE
  /\ scanpc' = "idle"
  /\ ctxDone' = FALSE
  /\ files' = <<>>
  /\ walkPos' = 0
  /\ sendIdx' = 0
  /\ fileChan' = <<>>
  /\ chanClosed' = FALSE
  /\ perr' = "nil"
  /\ deleted' = {}
  /\ deletedCount' = 0
  /\ cnt' = ZeroCnt
  /\ wpc' = [w \in Workers |-> "off"]
  /\ incremental' = FALSE
  /\ fsChanged' = (fsChanged /\ ~CleanRun)
  /\ cancelStatus' = "none"
  /\ failedFiles' = {}
  /\ removed' = FALSE
  /\ startTracks' = [p \in Paths |-> NoTrack]
  /\ active' = active - 1
  /\ UNCHANGED <<envVars, dbVars, progress, knownFiles,
                 wfile, wmeta, wartist, walbum, wisNew, wproc, crashed, ret>>

(* ------------------------------- CancelScan ----------------------------- *)
\* CancelScan returns nil: s.cancelFunc()
CancelScan ==
  /\ ~crashed
  /\ scanning /\ cancelFunc
  /\ ctxDone' = TRUE
  /\ cancelStatus' = IF cancelStatus = "none" THEN progress.Status
                     ELSE cancelStatus
  /\ UNCHANGED <<envVars, dbVars, scanning, cancelFunc, progress, knownFiles,
                 scanVars, wVars, crashed, ret, failedFiles, removed,
                 fsChanged, startTracks, active>>

\* CancelScan returns ErrScanNotRunning
CancelNotRunning ==
  /\ ~crashed
  /\ ~scanning \/ ~cancelFunc
  /\ UNCHANGED vars

(* ------------------------------ specification --------------------------- *)
(* ------------------------- artwork of a new album ----------------------- *)
awOthers == <<hVars, tcVars, stVars, fnVars, cfgVars, taken>>

\* findOrCreateAlbum, lines 381-388: the album was found and is returned;
\* nothing is done about its artwork
FoundAlbum(w) ==
  /\ WorkerFindAlbum(w)
  /\ wart' = IF wpc'[w] # "findTrack" THEN wart
             ELSE [wart EXCEPT ![w] =
                     IF walbum'[w] \in artCache THEN "cached"
                     ELSE IF \E j \in artJobs : j.id = walbum'[w] THEN "pending"
                     ELSE "none started"]
  /\ UNCHANGED <<artJobs, artCache, awOthers>>

\* findOrCreateAlbum, lines 390-423: the album is created and the artwork
\* goroutine is started with it
CreatedAlbum(w) ==
  /\ WorkerCreateAlbum(w)
  /\ IF albums' # albums
       THEN /\ artJobs' = artJobs \cup (albums' \ albums)
            /\ wart' = [wart EXCEPT ![w] = "started"]
       ELSE UNCHANGED <<artJobs, wart>>
  /\ UNCHANGED <<artCache, awOthers>>

\* the goroutine, lines 403-422: FindArtwork finds nothing or fails; or
\* ProcessAndCache writes the cache and albumRepo.Update saves the row
ArtworkRun(a) ==
  /\ ~crashed
  /\ a \in artJobs
  /\ artJobs' = artJobs \ {a}
  /\ \/ UNCHANGED <<artCache, albums>>
     \/ /\ artCache' = artCache \cup {a.id}
        /\ albums' = {x \in albums : x.id # a.id} \cup {a}
  /\ UNCHANGED <<envVars, tracks, artists, svcVars, scanVars, wVars, crashed,
                 histVars, wart, awOthers>>

(* ------------------------------ the worker pool ------------------------- *)
poolOthers == <<hVars, tcVars, stVars, fnVars, awVars, cfgVars>>

\* a scan is admitted: no file of it has been taken yet
PoolAdmit(inc) ==
  /\ ScanAdmit(inc)
  /\ taken' = [p \in Paths |-> <<>>]
  /\ UNCHANGED poolOthers

\* lines 270-279: the worker that received a file and found the context
\* alive calls processFile on it
PoolRecv(w) ==
  /\ WorkerRecv(w)
  /\ taken' = IF fileChan # <<>> /\ ~ctxDone
                THEN [taken EXCEPT ![Head(fileChan)] = Append(@, w)]
                ELSE taken
  /\ UNCHANGED poolOthers

\* the positions of a worker inside processFile
InProcessFile == {"findArtist", "createArtist", "findAlbum", "createAlbum",
                  "findTrack", "saveTrack"}
InFlight == {w \in Workers : wpc[w] \in InProcessFile}

(* --------------------------- LibraryHandler.Scan ------------------------ *)
\* number of POST /library/scan requests in flight at a time
NumRequests == 2
Requests == 1..NumRequests

HandlerInit ==
  /\ hpc = [r \in Requests |-> "none"]
  /\ hinc = [r \in Requests |-> FALSE]
  /\ hres = [r \in Requests |-> "none"]
  /\ overlap = {}

\* s.mu.RLock(); return s.scanning
IsScanning == scanning

\* lines 29-42: bind the request, then if h.service.IsScanning() { Conflict }
HandlerCheck(r, inc) ==
  /\ hpc[r] = "none"
  /\ hinc' = [hinc EXCEPT ![r] = inc]
  /\ hpc' = [hpc EXCEPT ![r] = IF IsScanning THEN "conflict" ELSE "checked"]
  /\ overlap' = overlap \cup {{q, r} : q \in {x \in Requests : hpc[x] = "checked"}}
  /\ UNCHANGED <<hres, libVars, hOthers>>

\* lines 47-60: go func() {...}(); c.JSON(http.StatusAccepted, ...)
HandlerAccept(r) ==
  /\ hpc[r] = "checked"
  /\ hpc' = [hpc EXCEPT ![r] = "accepted"]
  /\ UNCHANGED <<hinc, hres, overlap, libVars, hOthers>>

\* lines 47-54: the goroutine calls IncrementalScan / FullScan and drops
\* the returned error
HandlerGoroutine(r) ==
  /\ hpc[r] = "accepted"
  /\ hres[r] = "none"
  /\ \/ /\ ScanAdmit(hinc[r])
        /\ hres' = [hres EXCEPT ![r] = "admitted"]
     \/ /\ ScanRejected(hinc[r])
        /\ hres' = [hres EXCEPT ![r] = "ErrScanInProgress"]
  /\ UNCHANGED <<hpc, hinc, overlap, hOthers>>

\* the request was answered with a conflict, or was accepted and its goroutine
\* has returned from the call: nothing of it is left
HandlerDone(r) ==
  /\ hpc[r] = "conflict" \/ hres[r] # "none"
  /\ hpc' = [hpc EXCEPT ![r] = "none"]
  /\ hinc' = [hinc EXCEPT ![r] = FALSE]
  /\ hres' = [hres EXCEPT ![r] = "none"]
  /\ overlap' = {s \in overlap : r \notin s}
  /\ UNCHANGED <<libVars, hOthers>>

(* ------------------------------- Transcoder ----------------------------- *)
\* calls into the transcoder that run at the same time
NumCalls == 2
\* the source file's modification time ranges over 0..MaxTicks clock ticks
MaxTicks == 2
\* clock ticks in one second
TicksPerSecond == 2
\* pieces the engine writes its output in
NumChunks == 1

Callers == 1..NumCalls
Ticks == 0..MaxTicks
Chunks == 1..NumChunks

ProfileOriginal == "original"
ProfileHigh == "high"
Profiles == {ProfileOriginal, ProfileHigh}

ErrFFmpegNotFound == "ErrFFmpegNotFound"
ErrTranscodeFailed == "ErrTranscodeFailed"
\* An error value is the set of the errors in its chain.
\* fmt.Errorf("%w: %v", ErrTranscodeFailed, err)
TranscodeErr == {ErrTranscodeFailed}
\* fmt.Errorf("starting ffmpeg: %w", err): err is what exec returned
StartErr == {"exec.Error"}
\* fmt.Errorf("moving transcoded file: %w", err): err is an *os.LinkError
MoveErr == {"os.LinkError"}
\* ctx.Err()
CtxCanceled == {"context.Canceled"}
NoErr == {}
\* errors.Is(err, target)
ErrorsIs(err, target) == target \in err

\* info.ModTime().Format(time.RFC3339): the time in whole seconds
FormatRFC3339(t) == t \div TicksPerSecond

\* hex(sha256(inputPath|profile.Name|modTime)[:16]); the digest is taken to
\* be free of collisions, so a key is named by what is hashed
getCacheKey(profile) == [profile |-> profile, modTime |-> FormatRFC3339(srcMod)]

NoKey == [profile |-> "none", modTime |-> 0]

\* filepath.Join(t.cacheDir, cacheKey+"."+profile.Ext)
CachedPath(key) == <<key, "cache">>
\* cachedPath + ".tmp"
TempPath(key) == <<key, "tmp">>
\* inputPath, and the empty string GetCachedPath returns for "not cached"
SourcePath == <<NoKey, "source">>
NoPath == <<NoKey, "none">>

\* the file at a name, os.Stat(path) succeeding, and the file's state
FileAt(fs, path) == CHOOSE f \in fs : f.name = path
Stat(path) == \E f \in cfiles : f.name = path
NewFile(path, c) == [name |-> path, writers |-> {c}, data |-> {}, mtime |-> now]
\* the file holds the whole output of an engine run
WholeOutput(f) == f.data = Chunks

\* a file without a name that no engine has open is gone
Collect(fs) == {f \in fs : f.name # NoPath \/ f.writers # {}}
\* open(path, O_WRONLY|O_CREAT|O_TRUNC) by the engine of call c
OpenTrunc(fs, path, c) ==
  IF \E f \in fs : f.name = path
    THEN LET f == FileAt(fs, path) IN
         (fs \ {f}) \cup {[f EXCEPT !.writers = @ \cup {c}, !.data = {}, !.mtime = now]}
    ELSE fs \cup {NewFile(path, c)}
\* write(fd, chunk k) and close(fd) by the engine of call c
WriteChunk(fs, c, k) ==
  {IF c \in f.writers THEN [f EXCEPT !.data = @ \cup {k}, !.mtime = now] ELSE f
     : f \in fs}
CloseFile(fs, c) == Collect({[f EXCEPT !.writers = @ \ {c}] : f \in fs})
\* os.Remove(path); a missing file is an error the callers ignore
Unlink(fs, path) ==
  Collect({IF f.name = path THEN [f EXCEPT !.name = NoPath] ELSE f : f \in fs})
\* os.Rename(from, to), from existing: the file at to, if any, is replaced
RenameFile(fs, from, to) ==
  {IF f.name = from THEN [f EXCEPT !.name = to] ELSE f : f \in Unlink(fs, to)}

\* bytes in one piece of engine output
ChunkBytes == 5
\* the configured ceiling in bytes: far above what the cache holds, and a
\* tight one
CeilingLarge == 100
CeilingSmall == 10
\* the file system's clock runs over 0..MaxClock
MaxClock == 2
\* cache entries a previous run of the server may have left behind
NumOld == 2
\* updateCacheSize goroutines for one path, cleanupCache goroutines
MaxPending == 1
NumCleaners == 1

Keys == [profile : Profiles, modTime : {FormatRFC3339(t) : t \in Ticks}]
OldKeys == {[profile |-> ProfileHigh, modTime |-> 0 - k] : k \in 1..NumOld}
EntryPaths == {CachedPath(k) : k \in Keys \cup OldKeys}
Cleaners == 1..NumCleaners

\* info.Size()
FileSize(f) == ChunkBytes * Cardinality(f.data)
RECURSIVE SumSizes(_)
SumSizes(fs) ==
  IF fs = {} THEN 0
  ELSE LET f == CHOOSE x \in fs : TRUE IN FileSize(f) + SumSizes(fs \ {f})
\* filepath.Walk(t.cacheDir, ...): every file that has a name
Named(fs) == {f \in fs : f.name # NoPath}
DirSize(fs) == SumSizes(Named(fs))
\* the cache entries: the files at final cache paths
Entries(fs) == {f \in Named(fs) : f.name[2] = "cache"}
\* maxSize * 80 / 100
Target == (maxSize * 80) \div 100
Max2(a, b) == IF a > b THEN a ELSE b

NoRet == [kind |-> "none", path |-> NoPath, err |-> NoErr]
RetPath(path) == [kind |-> "path", path |-> path, err |-> NoErr]
RetErr(err) == [kind |-> "err", path |-> NoPath, err |-> err]
RetNil == [kind |-> "nil", path |-> NoPath, err |-> NoErr]

\* New, lines 107-140, on the cache directory as found and with the ceiling
\* as configured; calc is where the calculateCacheSize goroutine stands
TranscoderNew(found, ceiling, calc) ==
  /\ srcMod = 0
  /\ cfiles = found
  /\ maxSize = ceiling
  /\ cpc = [c \in Callers |-> "idle"]
  /\ cop = [c \in Callers |-> "none"]
  /\ cprof = [c \in Callers |-> "none"]
  /\ ckey = [c \in Callers |-> NoKey]
  /\ cwritten = [c \in Callers |-> 0]
  /\ cret = [c \in Callers |-> NoRet]
  /\ cmod = [c \in Callers |-> 0]
  /\ cacheSize = 0
  /\ now = 0
  /\ upd = [p \in EntryPaths |-> 0]
  /\ calcpc = calc
  /\ calcSum = 0
  /\ clpc = [k \in Cleaners |-> "off"]
  /\ clfiles = [k \in Cleaners |-> {}]
  /\ clcur = [k \in Cleaners |-> 0]
  /\ overCeiling = FALSE
  /\ evictMax = 0

\* the source file is edited or replaced
TouchSource ==
  /\ srcMod < MaxTicks
  /\ srcMod' = srcMod + 1
  /\ UNCHANGED <<cfiles, cpc, cop, cprof, ckey, cwritten, cret, cmod,
                 libVars, evVars, tcOthers>>

\* call c begins operation op with the given profile
Begin(c, op, profile, key) ==
  /\ cpc[c] = "idle"
  /\ cop' = [cop EXCEPT ![c] = op]
  /\ cprof' = [cprof EXCEPT ![c] = profile]
  /\ ckey' = [ckey EXCEPT ![c] = key]
  /\ cmod' = [cmod EXCEPT ![c] = IF key = NoKey THEN 0 ELSE srcMod]
  /\ cwritten' = [cwritten EXCEPT ![c] = 0]

\* GetCachedPath, lines 217-229
GetCachedPath(c, profile) ==
  LET key == IF profile = ProfileOriginal THEN NoKey ELSE getCacheKey(profile) IN
  /\ Begin(c, "GetCachedPath", profile, key)
  /\ cret' = [cret EXCEPT ![c] =
       IF profile = ProfileOriginal THEN RetPath(SourcePath)
       ELSE IF Stat(CachedPath(key)) THEN RetPath(CachedPath(key))
       ELSE RetPath(NoPath)]
  /\ UNCHANGED <<srcMod, cfiles, cpc, libVars, evVars, tcOthers>>

\* TranscodeAndCache, lines 188-198: the key, the look-up, the deferred Remove
TranscodeAndCache(c, profile) ==
  LET key == getCacheKey(profile) IN
  /\ Begin(c, "TranscodeAndCache", profile, key)
  /\ IF Stat(CachedPath(key))
       THEN /\ cret' = [cret EXCEPT ![c] = RetPath(CachedPath(key))]
            /\ UNCHANGED cpc
       ELSE /\ cret' = [cret EXCEPT ![c] = NoRet]
            /\ cpc' = [cpc EXCEPT ![c] = "run"]
  /\ UNCHANGED <<srcMod, cfiles, libVars, evVars, tcOthers>>

\* TranscodeToFile, lines 144-149: cmd.Run() starts the engine, which creates
\* or truncates its output file; or the engine cannot be started
TranscodeToFile(c) ==
  /\ cpc[c] = "run"
  /\ \/ /\ cret' = [cret EXCEPT ![c] = RetErr(TranscodeErr)]
        /\ cpc' = [cpc EXCEPT ![c] = "deferred"]
        /\ UNCHANGED cfiles
     \/ /\ cfiles' = OpenTrunc(cfiles, TempPath(ckey[c]), c)
        /\ cpc' = [cpc EXCEPT ![c] = "engine"]
        /\ UNCHANGED cret
  /\ UNCHANGED <<srcMod, cop, cprof, ckey, cwritten, cmod, libVars, evVars, tcOthers>>

\* the engine writes the next piece of its output to the file it has open
EngineWrite(c) ==
  /\ cpc[c] = "engine"
  /\ cwritten[c] < NumChunks
  /\ cwritten' = [cwritten EXCEPT ![c] = @ + 1]
  /\ cfiles' = WriteChunk(cfiles, c, cwritten[c] + 1)
  /\ UNCHANGED <<srcMod, cpc, cop, cprof, ckey, cret, cmod, libVars, evVars, tcOthers>>

\* the engine exits: with status 0 after the whole output, or with an error
\* (bad input, killed by the context) at any point; lines 149-153
EngineExit(c) ==
  /\ cpc[c] = "engine"
  /\ \/ /\ cwritten[c] = NumChunks
        /\ cpc' = [cpc EXCEPT ![c] = "rename"]
        /\ UNCHANGED cret
     \/ /\ cret' = [cret EXCEPT ![c] = RetErr(TranscodeErr)]
        /\ cpc' = [cpc EXCEPT ![c] = "deferred"]
  /\ cfiles' = CloseFile(cfiles, c)
  /\ cwritten' = [cwritten EXCEPT ![c] = 0]
  /\ UNCHANGED <<srcMod, cop, cprof, ckey, cmod, libVars, evVars, tcOthers>>

\* os.Rename(tempPath, cachedPath) and go t.updateCacheSize(cachedPath),
\* lines 206-213
Rename(c) ==
  LET tmp == TempPath(ckey[c])
      dst == CachedPath(ckey[c]) IN
  /\ cpc[c] = "rename"
  /\ IF Stat(tmp)
       THEN /\ upd[dst] < MaxPending
            /\ cfiles' = RenameFile(cfiles, tmp, dst)
            /\ cret' = [cret EXCEPT ![c] = RetPath(dst)]
            /\ upd' = [upd EXCEPT ![dst] = @ + 1]
            /\ overCeiling' = (overCeiling \/ SumSizes(Entries(cfiles')) > maxSize)
       ELSE /\ cret' = [cret EXCEPT ![c] = RetErr(MoveErr)]
            /\ UNCHANGED <<cfiles, upd, overCeiling>>
  /\ cpc' = [cpc EXCEPT ![c] = "deferred"]
  /\ UNCHANGED <<srcMod, cop, cprof, ckey, cwritten, cmod, maxSize, cacheSize,
                 now, calcpc, calcSum, clpc, clfiles, clcur, evictMax, libVars,
                 tcOthers>>

\* defer os.Remove(tempPath), line 198, as the call returns
DeferredRemove(c) ==
  /\ cpc[c] = "deferred"
  /\ cfiles' = Unlink(cfiles, TempPath(ckey[c]))
  /\ cpc' = [cpc EXCEPT ![c] = "idle"]
  /\ UNCHANGED <<srcMod, cop, cprof, ckey, cwritten, cret, cmod, libVars,
                 evVars, tcOthers>>

\* TranscodeToWriter, lines 158-166: cmd.Start()
TranscodeToWriter(c, profile) ==
  /\ Begin(c, "TranscodeToWriter", profile, NoKey)
  /\ \/ /\ cret' = [cret EXCEPT ![c] = RetErr(StartErr)]
        /\ UNCHANGED cpc
     \/ /\ cret' = [cret EXCEPT ![c] = NoRet]
        /\ cpc' = [cpc EXCEPT ![c] = "pipe"]
  /\ UNCHANGED <<srcMod, cfiles, libVars, evVars, tcOthers>>

\* lines 174-183: the select on ctx.Done() and on the engine's exit
WriterSelect(c) ==
  /\ cpc[c] = "pipe"
  /\ \E r \in {RetErr(CtxCanceled), RetErr(TranscodeErr), RetNil} :
       cret' = [cret EXCEPT ![c] = r]
  /\ cpc' = [cpc EXCEPT ![c] = "idle"]
  /\ UNCHANGED <<srcMod, cfiles, cop, cprof, ckey, cwritten, cmod, libVars,
                 evVars, tcOthers>>

(* ---------------------------- cache accounting -------------------------- *)
\* the clock advances
Tick ==
  /\ now < MaxClock
  /\ now' = now + 1
  /\ UNCHANGED <<srcMod, cfiles, cpc, cop, cprof, ckey, cwritten, cret, cmod,
                 maxSize, cacheSize, upd, calcpc, calcSum, clpc, clfiles, clcur,
                 overCeiling, evictMax, libVars, tcOthers>>

\* calculateCacheSize, lines 278-286: the walk
CalcWalk ==
  /\ calcpc = "walk"
  /\ calcSum' = DirSize(cfiles)
  /\ calcpc' = "store"
  /\ UNCHANGED <<srcMod, cfiles, cpc, cop, cprof, ckey, cwritten, cret, cmod,
                 maxSize, cacheSize, now, upd, clpc, clfiles, clcur,
                 overCeiling, evictMax, libVars, tcOthers>>

\* calculateCacheSize, lines 288-290: t.cacheSize = size
CalcStore ==
  /\ calcpc = "store"
  /\ cacheSize' = calcSum
  /\ calcSum' = 0
  /\ calcpc' = "done"
  /\ UNCHANGED <<srcMod, cfiles, cpc, cop, cprof, ckey, cwritten, cret, cmod,
                 maxSize, now, upd, clpc, clfiles, clcur, overCeiling,
                 evictMax, libVars, tcOthers>>

\* updateCacheSize(path), lines 296-312
UpdateCacheSize(path) ==
  /\ upd[path] > 0
  /\ upd' = [upd EXCEPT ![path] = @ - 1]
  /\ IF ~Stat(path)
       THEN UNCHANGED <<cacheSize, clpc>>
       ELSE LET currentSize == cacheSize + FileSize(FileAt(cfiles, path)) IN
            /\ cacheSize' = currentSize
            /\ IF currentSize > maxSize
                 THEN /\ \E k \in Cleaners : clpc[k] = "off"
                      /\ clpc' = [clpc EXCEPT
                           ![SetMin({k \in Cleaners : clpc[k] = "off"})] = "walk"]
                 ELSE UNCHANGED clpc
  /\ UNCHANGED <<srcMod, cfiles, cpc, cop, cprof, ckey, cwritten, cret, cmod,
                 maxSize, now, calcpc, calcSum, clfiles, clcur, overCeiling,
                 evictMax, libVars, tcOthers>>

\* cleanupCache, lines 322-342: list the directory; the sort puts the oldest
\* modification time first
CleanWalk(k) ==
  /\ clpc[k] = "walk"
  /\ clfiles' = [clfiles EXCEPT ![k] =
       {[path |-> f.name, size |-> FileSize(f), mtime |-> f.mtime] : f \in Named(cfiles)}]
  /\ clpc' = [clpc EXCEPT ![k] = "read"]
  /\ UNCHANGED <<srcMod, cfiles, cpc, cop, cprof, ckey, cwritten, cret, cmod,
                 maxSize, cacheSize, now, upd, calcpc, calcSum, clcur,
                 overCeiling, evictMax, libVars, tcOthers>>

\* lines 345-347: currentSize := t.cacheSize
CleanRead(k) ==
  /\ clpc[k] = "read"
  /\ clcur' = [clcur EXCEPT ![k] = cacheSize]
  /\ clpc' = [clpc EXCEPT ![k] = "loop"]
  /\ UNCHANGED <<srcMod, cfiles, cpc, cop, cprof, ckey, cwritten, cret, cmod,
                 maxSize, cacheSize, now, upd, calcpc, calcSum, clfiles,
                 overCeiling, evictMax, libVars, tcOthers>>

\* the loop is over: currentSize <= targetSize or no file is left
CleanOver(k) == clcur[k] <= Target \/ clfiles[k] = {}

\* lines 350-358: one iteration on the oldest listed file
CleanStep(k) ==
  /\ clpc[k] = "loop"
  /\ ~CleanOver(k)
  /\ \E e \in clfiles[k] :
       /\ \A o \in clfiles[k] : e.mtime <= o.mtime
       /\ clfiles' = [clfiles EXCEPT ![k] = @ \ {e}]
       /\ IF Stat(e.path)
            THEN /\ cfiles' = Unlink(cfiles, e.path)
                 /\ clcur' = [clcur EXCEPT ![k] = @ - e.size]
                 /\ evictMax' = Max2(evictMax, FileAt(cfiles, e.path).mtime)
                 /\ overCeiling' =
                      (overCeiling /\ SumSizes(Entries(cfiles')) > Target)
            ELSE UNCHANGED <<cfiles, clcur, evictMax, overCeiling>>
  /\ UNCHANGED <<srcMod, cpc, cop, cprof, ckey, cwritten, cret, cmod, maxSize,
                 cacheSize, now, upd, calcpc, calcSum, clpc, libVars, tcOthers>>

\* lines 360-362: t.cacheSize = currentSize
CleanStore(k) ==
  /\ clpc[k] = "loop"
  /\ CleanOver(k)
  /\ cacheSize' = clcur[k]
  /\ clpc' = [clpc EXCEPT ![k] = "off"]
  /\ clfiles' = [clfiles EXCEPT ![k] = {}]
  /\ clcur' = [clcur EXCEPT ![k] = 0]
  /\ UNCHANGED <<srcMod, cfiles, cpc, cop, cprof, ckey, cwritten, cret, cmod,
                 maxSize, now, upd, calcpc, calcSum, overCeiling, evictMax,
                 libVars, tcOthers>>

\* the server's transcoder: an empty cache directory, the default ceiling,
\* calculateCacheSize has stored its sum of zero
TranscoderInit == TranscoderNew({}, CeilingLarge, "done")

\* a cache directory that holds entries of an earlier run, a tight ceiling
OldEntries(ks) ==
  {[name |-> CachedPath(k), writers |-> {}, data |-> Chunks, mtime |-> 0] : k \in ks}
EvictTranscoderInit ==
  \E ks \in SUBSET OldKeys : TranscoderNew(OldEntries(ks), CeilingSmall, "walk")

(* ------------------------------ stream handler --------------------------- *)
StreamInit ==
  /\ streamed = {}
  /\ clater = [c \in Callers |-> FALSE]

\* Stream and streamTranscoded up to cmd.Start(): the original quality and a
\* cached transcode are served as files by streamOriginal; anything else is
\* piped from the engine by TranscodeToWriter
Stream(c, profile) ==
  LET key == IF profile = ProfileOriginal THEN NoKey ELSE getCacheKey(profile)
      cachedPath == IF profile = ProfileOriginal THEN SourcePath
                    ELSE IF Stat(CachedPath(key)) THEN CachedPath(key)
                    ELSE NoPath IN
  /\ Begin(c, "Stream", profile, key)
  /\ clater' = [clater EXCEPT ![c] = <<profile, srcMod>> \in streamed]
  /\ IF cachedPath # NoPath
       THEN /\ cret' = [cret EXCEPT ![c] = RetPath(cachedPath)]
            /\ streamed' = IF profile = ProfileOriginal THEN streamed
                           ELSE streamed \cup {<<profile, srcMod>>}
            /\ UNCHANGED cpc
       ELSE /\ UNCHANGED streamed
            /\ \/ /\ cret' = [cret EXCEPT ![c] = RetErr(StartErr)]
                  /\ UNCHANGED cpc
               \/ /\ cret' = [cret EXCEPT ![c] = NoRet]
                  /\ cpc' = [cpc EXCEPT ![c] = "pipe"]
  /\ UNCHANGED <<srcMod, cfiles, libVars, evVars, stOthers>>

\* streamTranscoded, lines 174-178: TranscodeToWriter returns
StreamSelect(c) ==
  /\ cpc[c] = "pipe"
  /\ cop[c] = "Stream"
  /\ \E r \in {RetErr(CtxCanceled), RetErr(TranscodeErr), RetNil} :
       /\ cret' = [cret EXCEPT ![c] = r]
       /\ streamed' = IF r = RetNil THEN streamed \cup {<<cprof[c], cmod[c]>>}
                      ELSE streamed
  /\ cpc' = [cpc EXCEPT ![c] = "idle"]
  /\ UNCHANGED <<srcMod, cfiles, cop, cprof, ckey, cwritten, cmod, clater,
                 libVars, evVars, stOthers>>

(* ------------------------------ range requests --------------------------- *)
\* strings are sequences of characters
Digits == <<"0", "1", "2", "3", "4", "5", "6", "7", "8", "9">>
IsDigit(ch) == \E d \in 1..10 : Digits[d] = ch
DigitVal(ch) == (CHOOSE d \in 1..10 : Digits[d] = ch) - 1

\* strconv.FormatInt(n, 10) and %d, for n >= 0
RECURSIVE FormatInt(_)
FormatInt(n) ==
  IF n < 10 THEN <<Digits[n + 1]>>
  ELSE Append(FormatInt(n \div 10), Digits[(n % 10) + 1])

RECURSIVE ParseDigits(_)
ParseDigits(s) ==
  IF s = <<>> THEN 0
  ELSE ParseDigits(SubSeq(s, 1, Len(s) - 1)) * 10 + DigitVal(s[Len(s)])

\* strconv.ParseInt(s, 10, 64): an optional sign, then one digit or more
ParseInt(s) ==
  LET signed == s # <<>> /\ s[1] \in {"+", "-"}
      d == IF signed THEN Tail(s) ELSE s IN
  IF d = <<>> \/ \E i \in 1..Len(d) : ~IsDigit(d[i])
    THEN [ok |-> FALSE, val |-> 0]
    ELSE [ok |-> TRUE,
          val |-> IF s[1] = "-" THEN 0 - ParseDigits(d) ELSE ParseDigits(d)]

HasPrefix(s, prefix) ==
  Len(s) >= Len(prefix) /\ SubSeq(s, 1, Len(prefix)) = prefix
TrimPrefix(s, prefix) ==
  IF HasPrefix(s, prefix) THEN SubSeq(s, Len(prefix) + 1, Len(s)) ELSE s

\* strings.Split(s, sep) for a separator of one character
RECURSIVE Split(_, _)
Split(s, sep) ==
  IF \E i \in 1..Len(s) : s[i] = sep
    THEN LET i == CHOOSE j \in 1..Len(s) :
                    s[j] = sep /\ \A l \in 1..(j - 1) : s[l] # sep IN
         <<SubSeq(s, 1, i - 1)>> \o Split(SubSeq(s, i + 1, Len(s)), sep)
    ELSE <<s>>

BytesUnit == <<"b", "y", "t", "e", "s", "=">>

\* parseRangeHeader, line 304: the range must lie inside the file
RangeOutOfBoundsNoEnd(start, end, fileSize) ==
  start < 0 \/ start >= fileSize \/ end < start
RangeOutOfBounds(start, end, fileSize) ==
  start < 0 \/ start >= fileSize \/ end < start \/ end >= fileSize

RangeErr(msg) == [start |-> 0, end |-> 0, err |-> msg]

\* parseRangeHeader, lines 262-309
parseRangeHeader(rangeHeader, fileSize) ==
  IF ~HasPrefix(rangeHeader, BytesUnit) THEN RangeErr("invalid range format")
  ELSE
  LET parts == Split(TrimPrefix(rangeHeader, BytesUnit), "-") IN
  IF Len(parts) # 2 THEN RangeErr("invalid range format")
  ELSE
  LET first == ParseInt(parts[1])
      second == ParseInt(parts[2])
      bad == IF parts[1] = <<>>
               THEN IF second.ok THEN "nil" ELSE "invalid range suffix"
             ELSE IF ~first.ok THEN "invalid range start"
             ELSE IF parts[2] # <<>> /\ ~second.ok THEN "invalid range end"
             ELSE "nil"
      start == IF parts[1] = <<>> THEN fileSize - second.val ELSE first.val
      end == IF parts[1] = <<>> \/ parts[2] = <<>> THEN fileSize - 1
             ELSE second.val IN
  IF bad # "nil" THEN RangeErr(bad)
  ELSE IF RangeOutOfBounds(start, end, fileSize) THEN RangeErr("range out of bounds")
  ELSE [start |-> start, end |-> end, err |-> "nil"]

\* the file's bytes
FileBytes(fileSize) == [i \in 1..fileSize |-> (i - 1) % 256]
\* file.Seek(start, io.SeekStart) and io.CopyN(c.Writer, file, n)
SeekCopyN(file, start, n) ==
  SubSeq(file, start + 1, IF start + n < Len(file) THEN start + n ELSE Len(file))

NoResp == [status |-> 0]

\* serveRange, lines 182-210
serveRange(rangeHeader, fileSize) ==
  LET r == parseRangeHeader(rangeHeader, fileSize) IN
  IF r.err # "nil"
    THEN [status |-> 416,
          contentRange |-> <<"bytes ", "*", "/", FormatInt(fileSize)>>,
          contentLength |-> <<>>,
          body |-> <<>>]
    ELSE [status |-> 206,
          contentRange |-> <<"bytes ", FormatInt(r.start), "-", FormatInt(r.end),
                             "/", FormatInt(fileSize)>>,
          contentLength |-> FormatInt(r.end - r.start + 1),
          body |-> SeekCopyN(FileBytes(fileSize), r.start, r.end - r.start + 1)]

\* the sizes and the numbers a client writes in a Range header
FileSizes == {0, 1, 3, 1000}
RangeNumbers == {0, 1, 2, 3, 99, 100, 199, 999, 1000, 2000}
\* bytes=s-e, bytes=s-, bytes=-k
RangeForms == {"s-e", "s-", "-k"}
NoReq == [form |-> "none", a |-> 0, b |-> 0]
RangeReqs ==
  [form : {"s-e"}, a : RangeNumbers, b : RangeNumbers]
    \cup [form : {"s-", "-k"}, a : RangeNumbers, b : {0}]
\* the header a client sends for the range it means
RangeHeader(req) ==
  BytesUnit \o
    CASE req.form = "s-e" -> FormatInt(req.a) \o <<"-">> \o FormatInt(req.b)
      [] req.form = "s-" -> FormatInt(req.a) \o <<"-">>
      [] req.form = "-k" -> <<"-">> \o FormatInt(req.a)

\* no range request has been made
RangeIdle ==
  /\ rSize = 0
  /\ rReq = NoReq
  /\ rHeader = <<>>
  /\ rResp = NoResp

\* a request with a Range header for a file of some size has arrived
RangeArrived ==
  /\ rSize \in FileSizes
  /\ rReq \in RangeReqs
  /\ rHeader = RangeHeader(rReq)
  /\ rResp = NoResp

\* streamOriginal, lines 130-134: the request is answered by serveRange
ServeRange ==
  /\ rReq # NoReq
  /\ rResp = NoResp
  /\ rResp' = serveRange(rHeader, rSize)
  /\ UNCHANGED <<rSize, rReq, rHeader, libVars, libAux, hVars, tcVars, stVars, mdVars,
                 cdVars>>

(* --------------------------- metadata extraction ------------------------- *)
\* Of TrackMetadata the model keeps Title, Artist and AlbumArtist; of the
\* path, the file's name and the name of the directory two levels up.
MaxNameLen == 5
NameChars == {"1", " ", "-", ".", "a"}
RECURSIVE StringsUpTo(_)
StringsUpTo(n) ==
  IF n = 0 THEN {<<>>}
  ELSE LET shorter == StringsUpTo(n - 1) IN
       shorter \cup {Append(s, ch) : s \in shorter, ch \in NameChars}
\* a file's name is not empty and is neither . nor ..
FileNames == StringsUpTo(MaxNameLen) \ {<<>>, <<".">>, <<".", ".">>}
\* filepath.Base(filepath.Dir(filepath.Dir(path)))
ParentDirNames == {<<"b">>, <<"M", "u", "s", "i", "c">>, <<".">>, <<"/">>}
\* what the tags of a readable, tagged file say
TagValues == [Title : {<<>>, <<"t">>}, Artist : {<<>>, <<"c">>},
              AlbumArtist : {<<>>, <<"d">>}]
NoTags == [Title |-> <<>>, Artist |-> <<>>, AlbumArtist |-> <<>>]
\* a file that cannot be opened, one whose tags cannot be read, a tagged one
AudioFiles ==
  {[kind |-> "unreadable", tags |-> NoTags], [kind |-> "untagged", tags |-> NoTags]}
    \cup [kind : {"tagged"}, tags : TagValues]

IsSpace(ch) == ch = " "
\* strings.TrimSpace
RECURSIVE TrimSpace(_)
TrimSpace(s) ==
  IF s = <<>> THEN s
  ELSE IF IsSpace(s[1]) THEN TrimSpace(Tail(s))
  ELSE IF IsSpace(s[Len(s)]) THEN TrimSpace(SubSeq(s, 1, Len(s) - 1))
  ELSE s

\* filepath.Ext: from the last dot on
Ext(name) ==
  IF \E i \in 1..Len(name) : name[i] = "."
    THEN SubSeq(name, SetMax({i \in 1..Len(name) : name[i] = "."}), Len(name))
    ELSE <<>>
\* strings.TrimSuffix
TrimSuffix(s, suffix) ==
  IF Len(s) >= Len(suffix) /\ SubSeq(s, Len(s) - Len(suffix) + 1, Len(s)) = suffix
    THEN SubSeq(s, 1, Len(s) - Len(suffix))
    ELSE s

\* [\s\.\-_]
IsSeparator(ch) == IsSpace(ch) \/ ch \in {".", "-", "_"}
\* ^(\d{1,3})[\s\.\-_]+ : the prefixes <<digits, separators>> that match and
\* leave at least `rest` characters
TrackPrefixes(s, rest) ==
  {nm \in (1..3) \X (1..Len(s)) :
     /\ nm[1] + nm[2] + rest <= Len(s)
     /\ \A i \in 1..nm[1] : IsDigit(s[i])
     /\ \A i \in (nm[1] + 1)..(nm[1] + nm[2]) : IsSeparator(s[i])}
\* the one the greedy match takes: the most digits, then the most separators
TrackPrefix(s, rest) ==
  LET n == SetMax({nm[1] : nm \in TrackPrefixes(s, rest)})
      m == SetMax({nm[2] : nm \in {x \in TrackPrefixes(s, rest) : x[1] = n}}) IN
  n + m

\* cleanTitle, lines 172-177
cleanTitle(title) ==
  TrimSpace(IF TrackPrefixes(title, 0) = {} THEN title
            ELSE SubSeq(title, TrackPrefix(title, 0) + 1, Len(title)))

\* ^(.+?)\s*-\s*(.+)$ : the lengths of a first group that match: the
\* characters after it up to the dash are spaces, something follows the dash
ArtistSplits(s) ==
  {i \in 1..Len(s) :
     \E j \in (i + 1)..(Len(s) - 1) :
       /\ s[j] = "-"
       /\ \A l \in (i + 1)..(j - 1) : IsSpace(s[l])}
\* the dash of the shortest first group
ArtistDash(s) ==
  LET i == SetMin(ArtistSplits(s)) IN
  CHOOSE j \in (i + 1)..(Len(s) - 1) :
    s[j] = "-" /\ \A l \in (i + 1)..(j - 1) : IsSpace(s[l])

ToLower(s) == [i \in 1..Len(s) |-> IF s[i] = "M" THEN "m" ELSE s[i]]
\* isGenericName, lines 207-222, for the names in use
isGenericName(name) ==
  ToLower(name) \in {<<"m", "u", "s", "i", "c">>, <<>>, <<".">>, <<".", ".">>}

UnknownArtist == <<"Unknown Artist">>

\* applyFallbacks, lines 127-169
applyFallbacks(meta, path) ==
  LET title == IF meta.Title = <<>>
                 THEN cleanTitle(TrimSuffix(path.name, Ext(path.name)))
                 ELSE meta.Title
      artist == IF meta.Artist = <<>>
                  THEN IF isGenericName(path.parent) THEN UnknownArtist
                       ELSE path.parent
                  ELSE meta.Artist
      albumArtist == IF meta.AlbumArtist = <<>> THEN artist
                     ELSE meta.AlbumArtist IN
  [Title |-> title, Artist |-> artist, AlbumArtist |-> albumArtist]

\* extractFromFilename, lines 90-124
extractFromFilename(path) ==
  LET filename == TrimSuffix(path.name, Ext(path.name))
      meta ==
        IF TrackPrefixes(filename, 1) # {}
          THEN [NoTags EXCEPT !.Title =
                  TrimSpace(SubSeq(filename, TrackPrefix(filename, 1) + 1, Len(filename)))]
        ELSE IF ArtistSplits(filename) # {}
          THEN [NoTags EXCEPT
                  !.Artist = TrimSpace(SubSeq(filename, 1, SetMin(ArtistSplits(filename)))),
                  !.Title = TrimSpace(SubSeq(filename, ArtistDash(filename) + 1, Len(filename)))]
        ELSE [NoTags EXCEPT !.Title = filename] IN
  applyFallbacks(meta, path)

NoMeta == [kind |-> "none"]
MetaOk(meta) == [kind |-> "ok", meta |-> meta]
MetaErr(err) == [kind |-> "error", err |-> err]

\* no extraction has been made
MetaIdle ==
  /\ mPath = [parent |-> <<>>, name |-> <<>>]
  /\ mFile = [kind |-> "none", tags |-> NoTags]
  /\ mRet = NoMeta

\* a file of the library is about to be read
MetaArrived ==
  /\ mPath \in [parent : ParentDirNames, name : FileNames]
  /\ mFile \in AudioFiles
  /\ mRet = NoMeta

\* Extract, lines 42-87
Extract ==
  /\ mFile.kind # "none"
  /\ mRet = NoMeta
  /\ mRet' = CASE mFile.kind = "unreadable" -> MetaErr({"opening file", "fs.PathError"})
               [] mFile.kind = "untagged" -> MetaOk(extractFromFilename(mPath))
               [] mFile.kind = "tagged" -> MetaOk(applyFallbacks(mFile.tags, mPath))
  /\ UNCHANGED <<mPath, mFile, libVars, libAux, hVars, tcVars, stVars, rgVars, cdVars>>

(* ----------------------------- conditional GET --------------------------- *)
\* http.TimeFormat has whole seconds: Format drops the fraction, ParseTime
\* gives the start of the second; an unparsable header gives an error
NoDate == 0 - 1
BadDate == 0 - 2
FormatHTTPTime(t) == t \div TicksPerSecond
ParseHTTPTime(h) == h * TicksPerSecond
\* the file's modification time is one of 0..MaxModTicks
MaxModTicks == 3
ModTicks == 0..MaxModTicks
HTTPDates ==
  {FormatHTTPTime(t) : t \in ModTicks} \cup {FormatHTTPTime(MaxModTicks) + 1}

\* handleConditional, lines 213-225: err == nil && !modTime.After(t)
NotModified(modTime, ifModSince) ==
  ifModSince # NoDate /\ ifModSince # BadDate
    /\ ~(modTime > ParseHTTPTime(ifModSince))

NoCondReq == [ifModifiedSince |-> NoDate, range |-> FALSE, echo |-> FALSE]
NoCondResp == [status |-> 0, lastModified |-> NoDate, body |-> <<>>]

\* streamOriginal, lines 107-140, on a file of one byte; a Range header, when
\* there is one, is bytes=0-
streamOriginal(modTime, req) ==
  IF NotModified(modTime, req.ifModifiedSince)
    THEN [status |-> 304, lastModified |-> FormatHTTPTime(modTime), body |-> <<>>]
  ELSE IF req.range
    THEN LET r == serveRange(BytesUnit \o <<"0", "-">>, 1) IN
         [status |-> r.status, lastModified |-> FormatHTTPTime(modTime),
          body |-> r.body]
  ELSE [status |-> 200, lastModified |-> FormatHTTPTime(modTime),
        body |-> FileBytes(1)]

\* no GET has been made; the file was last written at some time
CondIdle ==
  /\ qMod = 0
  /\ qLast = NoDate
  /\ qLastMod = 0
  /\ qReq = NoCondReq
  /\ qResp = NoCondResp
CondArrived ==
  /\ qMod \in ModTicks
  /\ qLast = NoDate
  /\ qLastMod = 0
  /\ qReq = NoCondReq
  /\ qResp = NoCondResp

\* the file is written again
TouchFile ==
  /\ qMod < MaxModTicks
  /\ qMod' = qMod + 1
  /\ UNCHANGED <<qLast, qLastMod, qReq, qResp, libVars, libAux, hVars, tcVars, stVars,
                 rgVars, mdVars>>

\* a GET with the given If-Modified-Since header (echo: the Last-Modified
\* value the client holds) and with or without a Range header
CondGet(ims, range, echo) ==
  /\ echo => qLast # NoDate /\ ims = qLast
  /\ LET req == [ifModifiedSince |-> ims, range |-> range, echo |-> echo]
         resp == streamOriginal(qMod, req) IN
     /\ qReq' = req
     /\ qResp' = resp
     /\ qLast' = resp.lastModified
     /\ qLastMod' = IF echo /\ qLastMod = qMod THEN qLastMod ELSE qMod
  /\ UNCHANGED <<qMod, libVars, libAux, hVars, tcVars, stVars, rgVars, mdVars>>

\* the components outside the library service, at rest
AuxInit ==
  HandlerInit /\ TranscoderInit /\ StreamInit /\ RangeIdle /\ MetaIdle /\ CondIdle

\* the server after start-up: no scan has run, no request has been made
Init == LibraryInit /\ AuxInit

Next ==
  \/ \E p \in FewPaths, m \in Metas : WriteFile(p, m) /\ UNCHANGED auxVars
  \/ \E p \in FewPaths : RemoveFile(p) /\ UNCHANGED auxVars
  \/ \E s \in {"ok", "missing", "denied"} : SetRoot(s) /\ UNCHANGED auxVars
  \/ \E inc \in BOOLEAN : ScanRejected(inc) /\ UNCHANGED auxVars
  \/ \E inc \in BOOLEAN : ScanAdmit(inc) /\ UNCHANGED auxVars
  \/ LoadKnownFiles /\ UNCHANGED auxVars
  \/ WalkRoot /\ UNCHANGED auxVars
  \/ WalkVisit /\ UNCHANGED auxVars
  \/ SetProcessing /\ UNCHANGED auxVars
  \/ Dispatch /\ UNCHANGED auxVars
  \/ WaitWorkers /\ UNCHANGED auxVars
  \/ \E w \in Workers : WorkerRecv(w) /\ UNCHANGED auxVars
  \/ \E w \in Workers : WorkerFindArtist(w) /\ UNCHANGED auxVars
  \/ \E w \in Workers : WorkerCreateArtist(w) /\ UNCHANGED auxVars
  \/ \E w \in Workers : WorkerFindAlbum(w) /\ UNCHANGED auxVars
  \/ \E w \in Workers : WorkerCreateAlbum(w) /\ UNCHANGED auxVars
  \/ \E w \in Workers : WorkerFindTrack(w) /\ UNCHANGED auxVars
  \/ \E w \in Workers : WorkerSaveTrack(w) /\ UNCHANGED auxVars
  \/ \E w \in Workers : WorkerPublish(w) /\ UNCHANGED auxVars
  \/ CleanupFind /\ UNCHANGED auxVars
  \/ CleanupDelete /\ UNCHANGED auxVars
  \/ CleanupCount /\ UNCHANGED auxVars
  \/ CleanupAlbums /\ UNCHANGED auxVars
  \/ CleanupArtists /\ UNCHANGED auxVars
  \/ Complete /\ UNCHANGED auxVars
  \/ ScanExit /\ UNCHANGED auxVars
  \/ CancelScan /\ UNCHANGED auxVars
  \/ CancelNotRunning

Spec == Init /\ [][Next]_vars

\* scans of a media root to which files are added, with the artwork
\* goroutines of findOrCreateAlbum
ArtNext ==
  \/ \E p \in FewPaths, m \in Metas : WriteFile(p, m) /\ UNCHANGED auxVars
  \/ \E inc \in BOOLEAN : ScanAdmit(inc) /\ UNCHANGED auxVars
  \/ LoadKnownFiles /\ UNCHANGED auxVars
  \/ WalkRoot /\ UNCHANGED auxVars
  \/ WalkVisit /\ UNCHANGED auxVars
  \/ SetProcessing /\ UNCHANGED auxVars
  \/ Dispatch /\ UNCHANGED auxVars
  \/ WaitWorkers /\ UNCHANGED auxVars
  \/ \E w \in Workers : WorkerRecv(w) /\ UNCHANGED auxVars
  \/ \E w \in Workers : WorkerFindArtist(w) /\ UNCHANGED auxVars
  \/ \E w \in Workers : WorkerCreateArtist(w) /\ UNCHANGED auxVars
  \/ \E w \in Workers : FoundAlbum(w)
  \/ \E w \in Workers : CreatedAlbum(w)
  \/ \E w \in Workers : WorkerFindTrack(w) /\ UNCHANGED auxVars
  \/ \E w \in Workers : WorkerSaveTrack(w) /\ UNCHANGED auxVars
  \/ \E w \in Workers : WorkerPublish(w) /\ UNCHANGED auxVars
  \/ \E a \in artJobs : ArtworkRun(a)
  \/ CleanupFind /\ UNCHANGED auxVars
  \/ CleanupCount /\ UNCHANGED auxVars
  \/ Complete /\ UNCHANGED auxVars
  \/ ScanExit /\ UNCHANGED auxVars

ArtSpec == Init /\ [][ArtNext]_vars

\* a machine of PoolCPU processors and a media root that holds FewPaths:
\* full and incremental scans, cancelled at any moment, no injected failure
PoolInit ==
  /\ LibraryNew(PoolCPU, 0, [p \in Paths |-> IF p \in FewPaths THEN 1 ELSE 0])
  /\ AuxInit

PoolNext ==
  \/ \E inc \in BOOLEAN : PoolAdmit(inc)
  \/ LoadKnownFiles /\ UNCHANGED auxVars
  \/ WalkRoot /\ UNCHANGED auxVars
  \/ WalkVisit /\ UNCHANGED auxVars
  \/ SetProcessing /\ UNCHANGED auxVars
  \/ Dispatch /\ UNCHANGED auxVars
  \/ WaitWorkers /\ UNCHANGED auxVars
  \/ \E w \in Workers : PoolRecv(w)
  \/ \E w \in Workers : WorkerFindArtist(w) /\ UNCHANGED auxVars
  \/ \E w \in Workers : WorkerCreateArtist(w) /\ UNCHANGED auxVars
  \/ \E w \in Workers : WorkerFindAlbum(w) /\ UNCHANGED auxVars
  \/ \E w \in Workers : WorkerCreateAlbum(w) /\ UNCHANGED auxVars
  \/ \E w \in Workers : WorkerFindTrack(w) /\ UNCHANGED auxVars
  \/ \E w \in Workers : WorkerSaveTrack(w) /\ UNCHANGED auxVars
  \/ \E w \in Workers : WorkerPublish(w) /\ UNCHANGED auxVars
  \/ CleanupFind /\ UNCHANGED auxVars
  \/ CleanupCount /\ UNCHANGED auxVars
  \/ Complete /\ UNCHANGED auxVars
  \/ ScanExit /\ UNCHANGED auxVars
  \/ CancelScan /\ UNCHANGED auxVars

PoolSpec == PoolInit /\ [][PoolNext]_vars

\* a machine of PoolCPU processors and a media root of PubFiles files, one
\* more than the publication period: scans that are never cancelled
PubInit ==
  /\ LibraryNew(PoolCPU, 0, [p \in Paths |-> IF p <= PubFiles THEN 1 ELSE 0])
  /\ AuxInit

PubNext ==
  \/ \E inc \in BOOLEAN : ScanAdmit(inc) /\ UNCHANGED auxVars
  \/ LoadKnownFiles /\ UNCHANGED auxVars
  \/ WalkRoot /\ UNCHANGED auxVars
  \/ WalkVisit /\ UNCHANGED auxVars
  \/ SetProcessing /\ UNCHANGED auxVars
  \/ Dispatch /\ UNCHANGED auxVars
  \/ WaitWorkers /\ UNCHANGED auxVars
  \/ \E w \in Workers : WorkerRecv(w) /\ UNCHANGED auxVars
  \/ \E w \in Workers : WorkerFindArtist(w) /\ UNCHANGED auxVars
  \/ \E w \in Workers : WorkerCreateArtist(w) /\ UNCHANGED auxVars
  \/ \E w \in Workers : WorkerFindAlbum(w) /\ UNCHANGED auxVars
  \/ \E w \in Workers : WorkerCreateAlbum(w) /\ UNCHANGED auxVars
  \/ \E w \in Workers : WorkerFindTrack(w) /\ UNCHANGED auxVars
  \/ \E w \in Workers : WorkerSaveTrack(w) /\ UNCHANGED auxVars
  \/ \E w \in Workers : WorkerPublish(w) /\ UNCHANGED auxVars
  \/ CleanupFind /\ UNCHANGED auxVars
  \/ CleanupCount /\ UNCHANGED auxVars
  \/ Complete /\ UNCHANGED auxVars
  \/ ScanExit /\ UNCHANGED auxVars

PubSpec == PubInit /\ [][PubNext]_vars

\* the goroutines are scheduled fairly: the scan goroutine and each worker
\* take their next step when it stays possible (every file system and
\* repository call returns). Requests to scan and to cancel are not forced.
ScanStep ==
  /\ \/ LoadKnownFiles \/ WalkRoot \/ WalkVisit \/ SetProcessing \/ Dispatch
     \/ WaitWorkers \/ CleanupFind \/ CleanupCount \/ Complete \/ ScanExit
  /\ UNCHANGED auxVars
WorkerStep(w) ==
  \/ PoolRecv(w)
  \/ /\ \/ WorkerFindArtist(w) \/ WorkerCreateArtist(w) \/ WorkerFindAlbum(w)
        \/ WorkerCreateAlbum(w) \/ WorkerFindTrack(w) \/ WorkerSaveTrack(w)
        \/ WorkerPublish(w)
     /\ UNCHANGED auxVars
FairPoolSpec ==
  /\ PoolInit
  /\ [][PoolNext]_vars
  /\ WF_vars(ScanStep)
  /\ \A w \in Workers : WF_vars(WorkerStep(w))

\* the scan endpoint in front of the service: every scan is started by a
\* request's goroutine
HandlerNext ==
  \/ \E p \in FewPaths, m \in Metas : WriteFile(p, m) /\ UNCHANGED auxVars
  \/ \E p \in FewPaths : RemoveFile(p) /\ UNCHANGED auxVars
  \/ \E r \in Requests, inc \in BOOLEAN : HandlerCheck(r, inc)
  \/ \E r \in Requests : HandlerAccept(r)
  \/ \E r \in Requests : HandlerGoroutine(r)
  \/ \E r \in Requests : HandlerDone(r)
  \/ LoadKnownFiles /\ UNCHANGED auxVars
  \/ WalkRoot /\ UNCHANGED auxVars
  \/ WalkVisit /\ UNCHANGED auxVars
  \/ SetProcessing /\ UNCHANGED auxVars
  \/ Dispatch /\ UNCHANGED auxVars
  \/ WaitWorkers /\ UNCHANGED auxVars
  \/ \E w \in Workers : WorkerRecv(w) /\ UNCHANGED auxVars
  \/ \E w \in Workers : WorkerFindArtist(w) /\ UNCHANGED auxVars
  \/ \E w \in Workers : WorkerCreateArtist(w) /\ UNCHANGED auxVars
  \/ \E w \in Workers : WorkerFindAlbum(w) /\ UNCHANGED auxVars
  \/ \E w \in Workers : WorkerCreateAlbum(w) /\ UNCHANGED auxVars
  \/ \E w \in Workers : WorkerFindTrack(w) /\ UNCHANGED auxVars
  \/ \E w \in Workers : WorkerSaveTrack(w) /\ UNCHANGED auxVars
  \/ \E w \in Workers : WorkerPublish(w) /\ UNCHANGED auxVars
  \/ CleanupFind /\ UNCHANGED auxVars
  \/ CleanupDelete /\ UNCHANGED auxVars
  \/ CleanupCount /\ UNCHANGED auxVars
  \/ CleanupAlbums /\ UNCHANGED auxVars
  \/ CleanupArtists /\ UNCHANGED auxVars
  \/ Complete /\ UNCHANGED auxVars
  \/ ScanExit /\ UNCHANGED auxVars

HandlerSpec == Init /\ [][HandlerNext]_vars

\* the transcoder under concurrent calls
\* the calls into the transcoder; the accounting goroutines they start are
\* scheduled in EvictNext
CacheNext ==
  \/ TouchSource
  \/ \E c \in Callers, pr \in Profiles : GetCachedPath(c, pr)
  \/ \E c \in Callers, pr \in Profiles : TranscodeAndCache(c, pr)
  \/ \E c \in Callers : TranscodeToFile(c)
  \/ \E c \in Callers : EngineWrite(c)
  \/ \E c \in Callers : EngineExit(c)
  \/ \E c \in Callers : Rename(c)
  \/ \E c \in Callers : DeferredRemove(c)
  \/ \E c \in Callers, pr \in Profiles : TranscodeToWriter(c, pr)
  \/ \E c \in Callers : WriterSelect(c)

CacheSpec == Init /\ [][CacheNext]_vars

\* the cache under a tight ceiling: one caller after the other, on entries
\* of one profile
EvictInit ==
  /\ LibraryInit /\ HandlerInit /\ EvictTranscoderInit /\ StreamInit
  /\ RangeIdle /\ MetaIdle /\ CondIdle
EvictNext ==
  \/ TouchSource
  \/ Tick
  \/ TranscodeAndCache(1, ProfileHigh)
  \/ TranscodeToFile(1)
  \/ EngineWrite(1)
  \/ EngineExit(1)
  \/ Rename(1)
  \/ DeferredRemove(1)
  \/ \E p \in EntryPaths : UpdateCacheSize(p)
  \/ CalcWalk
  \/ CalcStore
  \/ \E k \in Cleaners : CleanWalk(k)
  \/ \E k \in Cleaners : CleanRead(k)
  \/ \E k \in Cleaners : CleanStep(k)
  \/ \E k \in Cleaners : CleanStore(k)

EvictSpec == EvictInit /\ [][EvictNext]_vars

\* stream requests on a cache directory that holds some transcodes or none
StreamTranscoderInit ==
  \E ks \in SUBSET Keys : TranscoderNew(OldEntries(ks), CeilingLarge, "done")
StreamSpecInit ==
  /\ LibraryInit /\ HandlerInit /\ StreamTranscoderInit /\ StreamInit
  /\ RangeIdle /\ MetaIdle /\ CondIdle
StreamNext ==
  \/ TouchSource
  \/ \E c \in Callers, pr \in Profiles : Stream(c, pr)
  \/ \E c \in Callers : StreamSelect(c)

StreamSpec == StreamSpecInit /\ [][StreamNext]_vars

\* range requests, one at a time
RangeInit ==
  /\ LibraryInit /\ HandlerInit /\ TranscoderInit /\ StreamInit
  /\ RangeArrived /\ MetaIdle /\ CondIdle
RangeNext == ServeRange
RangeSpec == RangeInit /\ [][RangeNext]_vars

\* metadata extractions, one at a time
MetaInit ==
  /\ LibraryInit /\ HandlerInit /\ TranscoderInit /\ StreamInit
  /\ RangeIdle /\ MetaArrived /\ CondIdle
MetaNext == Extract
MetaSpec == MetaInit /\ [][MetaNext]_vars

\* conditional GETs of one file, one at a time
CondInit ==
  /\ LibraryInit /\ HandlerInit /\ TranscoderInit /\ StreamInit
  /\ RangeIdle /\ MetaIdle /\ CondArrived
CondNext ==
  \/ TouchFile
  \/ \E ims \in HTTPDates \cup {NoDate, BadDate}, range \in BOOLEAN, echo \in BOOLEAN :
       CondGet(ims, range, echo)
CondSpec == CondInit /\ [][CondNext]_vars

(* -------------------------------- claims -------------------------------- *)
Terminal == {ScanStatusCompleted, ScanStatusFailed, ScanStatusCancelled}
\* the scan has set its last status and is about to return
AtReturn == scanpc = "exit"
\* CancelScan returned nil while the scan was in the walk or processing phase
CancelledMidScan == cancelStatus \in {ScanStatusScanning, ScanStatusProcessing}
TrackPaths == {p \in Paths : tracks[p] # NoTrack}

\* C1: at most one scan is active at a time; a FullScan/IncrementalScan call
\* made while the scanning flag is set returns ErrScanInProgress, starts no
\* scan (none is queued: a scan only starts in the step of an admitted call)
\* and leaves the running scan's progress, status and cancel function as
\* they were.
C1_OneScanAtATime ==
  /\ [](active <= 1 /\ (scanning <=> active = 1))
  /\ [][ /\ (scanning /\ ret' # ret) =>
              /\ ret' = "ErrScanInProgress"
              /\ UNCHANGED <<progress, scanning, cancelFunc, ctxDone,
                             scanVars, wVars, dbVars, active>>
         /\ (~scanning /\ scanning') => (active' = active + 1 /\ ret' = "admitted")
       ]_vars
C1_Witness ==
  /\ ret = "ErrScanInProgress"
  /\ scanning
  /\ progress.Status = ScanStatusProcessing
  /\ \E w \in Workers : wpc[w] = "saveTrack"

\* C2: a scan for which CancelScan returned nil while its status was
\* processing ends with status cancelled.
C2_CancelProcessingEndsCancelled ==
  (AtReturn /\ cancelStatus = ScanStatusProcessing)
    => progress.Status = ScanStatusCancelled

\* C3: a scan for which CancelScan returned nil while its status was
\* scanning processes no file and ends with status cancelled.
C3_CancelScanningEndsCancelled ==
  (AtReturn /\ cancelStatus = ScanStatusScanning)
    => (progress.Status = ScanStatusCancelled /\ cnt = ZeroCnt)

\* C4: a scan for which CancelScan returned nil (in the walk or processing
\* phase) removes no Track, Album or Artist row from its start to its end.
C4_CancelledScanDeletesNothing ==
  CancelledMidScan => ~removed

\* C5: when a full scan ends completed (and was not cancelled), a file that
\* had a Track row and is no longer on disk has no Track row, and its album,
\* if no track is left in it, has no Album row.
C5_FullScanRemovesDeleted ==
  (AtReturn /\ ~incremental /\ cancelStatus = "none"
     /\ progress.Status = ScanStatusCompleted)
    => \A p \in Paths :
         (startTracks[p] # NoTrack /\ rootState = "ok" /\ disk[p] = 0) =>
           /\ tracks[p] = NoTrack
           /\ (\A q \in Paths : tracks[q].album # startTracks[p].album)
                => \A a \in albums : a.id # startTracks[p].album

\* C6: Track rows are keyed by file path (tracks is a function of the path:
\* the unique index), and when a full scan ends completed with ErrorCount 0
\* every supported file under the media root has its Track row.
C6_OneTrackPerFile ==
  (AtReturn /\ ~incremental /\ progress.Status = ScanStatusCompleted
     /\ progress.ErrorCount = 0)
    => \A p \in Paths : Exists(p) => tracks[p] # NoTrack

\* C7: a scan that ends completed while the media root is as the previous
\* completed scan found it reports NewTracks = 0 and UpdatedTracks = 0 (stated
\* for scans that are not cancelled, after a scan without failed files).
C7_RerunIsNoop ==
  (AtReturn /\ ~fsChanged /\ cancelStatus = "none"
     /\ progress.Status = ScanStatusCompleted)
    => (progress.NewTracks = 0 /\ progress.UpdatedTracks = 0)

\* C8: every file whose processing failed adds exactly one to the error
\* count; unless the scan is cancelled it ends completed with every candidate
\* file processed, every file that did not fail stored, and the published
\* ErrorCount equal to the number of failed files.
C8_PerFileFailureCounted ==
  /\ cnt.err = Cardinality(failedFiles)
  /\ (AtReturn /\ ~CancelledMidScan) =>
       /\ progress.Status = ScanStatusCompleted
       /\ cnt.processed = Len(files)
       /\ progress.ErrorCount = Cardinality(failedFiles)
       /\ progress.NewTracks + progress.UpdatedTracks
            = Len(files) - Cardinality(failedFiles)
       /\ \A i \in 1..Len(files) :
            files[i] \notin failedFiles => tracks[files[i]] # NoTrack
C8_Witness ==
  /\ AtReturn
  /\ cancelStatus = "none"
  /\ Len(files) = 2
  /\ Cardinality(failedFiles) = 1
  /\ progress.ErrorCount = 1
  /\ progress.NewTracks + progress.UpdatedTracks = 1
  /\ progress.Status = ScanStatusCompleted

\* C9: a scan started while the media root is missing or inaccessible ends
\* failed and removes no Track, Album or Artist row.
C9_UnreadableRootFails ==
  (AtReturn /\ rootState # "ok")
    => (progress.Status = ScanStatusFailed /\ ~removed)

\* C10: the status only moves idle -> scanning -> processing -> completed,
\* failed or cancelled (failed also from scanning); a terminal status only
\* changes to scanning, in the step that admits a new scan.
StatusEdges ==
  {<<ScanStatusIdle, ScanStatusScanning>>,
   <<ScanStatusScanning, ScanStatusProcessing>>,
   <<ScanStatusScanning, ScanStatusFailed>>,
   <<ScanStatusProcessing, ScanStatusCompleted>>,
   <<ScanStatusProcessing, ScanStatusFailed>>,
   <<ScanStatusProcessing, ScanStatusCancelled>>}
    \cup {<<t, ScanStatusScanning>> : t \in Terminal}
C10_StatusForward ==
  [][ progress'.Status # progress.Status =>
        /\ <<progress.Status, progress'.Status>> \in StatusEdges
        /\ progress.Status \in Terminal => (~scanning /\ scanning')
    ]_vars
C10_Witness ==
  /\ progress.Status = ScanStatusScanning
  /\ ret = "admitted"
  /\ TrackPaths # {}
  /\ knownFiles # {}

\* C11: through the HTTP handler, of two overlapping POST /library/scan
\* requests at most one is answered 202 Accepted (the other gets a
\* conflict), and the goroutine of every request answered 202 has its scan
\* admitted: none of them gets ErrScanInProgress.
C11_OverlappingRequestsOneAccepted ==
  /\ \A q, r \in Requests :
       ({q, r} \in overlap /\ q # r) => ~(hpc[q] = "accepted" /\ hpc[r] = "accepted")
  /\ \A r \in Requests : hres[r] # "ErrScanInProgress"

\* the cache key a name in the cache directory was built from
KeyOf(path) == path[1]
Returned(c) == cpc[c] = "idle" /\ cret[c].kind # "none"

\* C12: resolving with the original profile through GetCachedPath or
\* TranscodeAndCache returns the source path unchanged, runs no engine
\* subprocess and creates no file in the cache directory.
C12_OriginalResolvesToSource ==
  /\ \A c \in Callers :
       (cprof[c] = ProfileOriginal /\ cop[c] \in {"GetCachedPath", "TranscodeAndCache"})
         => /\ cpc[c] \notin {"engine", "rename"}
            /\ Returned(c) => cret[c] = RetPath(SourcePath)
  /\ \A f \in cfiles : f.name # NoPath => KeyOf(f.name).profile # ProfileOriginal

\* C13: for the one source path and a profile, two resolutions made at
\* different source modification times use different cache keys, and two
\* made at the same modification time use the same key.
C13_StaleCacheImmunity ==
  \A c1, c2 \in Callers :
    (ckey[c1] # NoKey /\ ckey[c2] # NoKey /\ cprof[c1] = cprof[c2])
      => (cmod[c1] # cmod[c2] <=> ckey[c1] # ckey[c2])

\* C14: a file at a final cache path always holds the whole output of an
\* engine run; when no call is running no temporary file is left; a call
\* that returns a path returns that of a complete cached file.
C14_CacheFilesComplete ==
  /\ \A f \in cfiles : (f.name # NoPath /\ f.name[2] = "cache") => WholeOutput(f)
  /\ (\A c \in Callers : cpc[c] = "idle")
       => \A f \in cfiles : f.name # NoPath => f.name[2] # "tmp"
  /\ \A c \in Callers :
       (Returned(c) /\ cop[c] = "TranscodeAndCache" /\ cret[c].kind = "path")
         => \E f \in cfiles : f.name = cret[c].path

\* C18: every error returned by TranscodeToFile, TranscodeToWriter and
\* TranscodeAndCache satisfies errors.Is(err, ErrFFmpegNotFound) or
\* errors.Is(err, ErrTranscodeFailed).
C18_ErrorsAreSentinels ==
  \A c \in Callers :
    cret[c].kind = "err"
      => \/ ErrorsIs(cret[c].err, ErrFFmpegNotFound)
         \/ ErrorsIs(cret[c].err, ErrTranscodeFailed)

\* nothing of the transcoder is running
Quiescent ==
  /\ \A c \in Callers : cpc[c] = "idle"
  /\ \A p \in EntryPaths : upd[p] = 0
  /\ \A k \in Cleaners : clpc[k] = "off"
  /\ calcpc = "done"

\* C15: after an entry was added that took the cache above the ceiling,
\* once every eviction pass has finished the cache directory is back at or
\* below 80% of the ceiling; and no evicted file has a modification time
\* later than that of a file that was kept.
C15_EvictionRestoresBudget ==
  Quiescent => /\ ~overCeiling
               /\ \A f \in Entries(cfiles) : evictMax <= f.mtime

\* C16: a stream request at a non-original quality that begins after a
\* request for the same quality of the same unchanged track was delivered in
\* full is served from the cached file and does not run the engine.
C16_LaterRequestFromCache ==
  \A c \in Callers :
    (cop[c] = "Stream" /\ clater[c]) => cpc[c] # "pipe"

\* C17: for every file size N and every Range header bytes=s-e, bytes=s- and
\* bytes=-k: when the range lies inside the file (s <= e < N; s < N;
\* 1 <= k <= N) the response is 206 with Content-Range "bytes start-end/N",
\* 0 <= start <= end < N, Content-Length end-start+1 and exactly those
\* bytes; otherwise it is 416 with Content-Range "bytes */N" and no body.
C17_RangeResponses ==
  rResp # NoResp =>
    LET N == rSize
        inside == CASE rReq.form = "s-e" -> rReq.a <= rReq.b /\ rReq.b < N
                    [] rReq.form = "s-" -> rReq.a < N
                    [] rReq.form = "-k" -> 1 <= rReq.a /\ rReq.a <= N
        start == IF rReq.form = "-k" THEN N - rReq.a ELSE rReq.a
        end == IF rReq.form = "s-e" THEN rReq.b ELSE N - 1 IN
    IF inside
      THEN /\ rResp.status = 206
           /\ 0 <= start /\ start <= end /\ end < N
           /\ rResp.contentRange =
                <<"bytes ", FormatInt(start), "-", FormatInt(end), "/", FormatInt(N)>>
           /\ rResp.contentLength = FormatInt(end - start + 1)
           /\ rResp.body = [i \in 1..(end - start + 1) |-> (start + i - 1) % 256]
      ELSE /\ rResp.status = 416
           /\ rResp.contentRange = <<"bytes ", "*", "/", FormatInt(N)>>
           /\ rResp.body = <<>>

\* bytes=100-199 on a file of 1000 bytes was answered with 206 and 100 bytes
C17_Witness ==
  /\ rSize = 1000
  /\ rHeader = BytesUnit \o <<"1", "0", "0", "-", "1", "9", "9">>
  /\ rResp.status = 206
  /\ Len(rResp.body) = 100

\* C19: Extract returns a TrackMetadata and a nil error for every path; a
\* file whose tags cannot be read, and one that cannot be opened, gets the
\* fallback metadata.
C19_ExtractNeverFails ==
  mRet # NoMeta => mRet.kind = "ok"

\* C20: every TrackMetadata that Extract returns has a non-empty Title and a
\* non-empty AlbumArtist, the latter equal to Artist when the tags give none.
C20_TitleAndAlbumArtist ==
  mRet.kind = "ok" =>
    /\ mRet.meta.Title # <<>>
    /\ mRet.meta.AlbumArtist # <<>>
    /\ mFile.tags.AlbumArtist = <<>> => mRet.meta.AlbumArtist = mRet.meta.Artist

\* C21: a GET whose If-Modified-Since date is not earlier than the file's
\* modification time is answered 304 with no body, with or without a Range
\* header; in particular a GET that sends back the Last-Modified value
\* given for the file, the file being unchanged since, is answered 304.
C21_NotModifiedIs304 ==
  LET ims == qReq.ifModifiedSince IN
  qResp # NoCondResp =>
    /\ (ims \in HTTPDates /\ ParseHTTPTime(ims) >= qMod)
         => (qResp.status = 304 /\ qResp.body = <<>>)
    /\ (qReq.echo /\ qLastMod = qMod)
         => (qResp.status = 304 /\ qResp.body = <<>>)

\* C22: whenever a worker processes a file whose album has no cached
\* artwork, the album just created or found, artwork resolution for the
\* album is started (or still under way); the worker never waits for it.
C22_ArtworkStartedWhenMissing ==
  \A w \in Workers : wart[w] # "none started"

HasTrack(field, id) == \E p \in Paths : tracks[p][field] = id
HeldInFlight(ids) == {ids[w] : w \in InFlight}

\* C24: once the scan is cancelled no worker starts a further file, and a
\* file whose processing had begun runs to completion with its remaining
\* repository writes applied: it leaves no Artist or Album without the
\* Track that caused it.
C24_CancelledFileCompletes ==
  /\ (scanning /\ cancelStatus # "none")
       => /\ \A a \in artists :
            HasTrack("artist", a.id) \/ a.id \in HeldInFlight(wartist)
          /\ \A a \in albums :
            HasTrack("album", a.id) \/ a.id \in HeldInFlight(walbum)

\* C25: under the worker pool no two Artist rows have the same name and no
\* two Album rows the same title and artist.
C25_NoDuplicateArtistOrAlbum ==
  /\ \A a, b \in artists : a.name = b.name => a = b
  /\ \A a, b \in albums : (a.title = b.title /\ a.artist = b.artist) => a = b

\* C26: after a full scan ends completed, no Album row has zero Track rows
\* and no Artist row has zero Album rows.
C26_FullScanLeavesNoEmptyRows ==
  (progress.Status = ScanStatusCompleted /\ scanpc = "exit" /\ ~incremental)
    => /\ \A a \in albums : HasTrack("album", a.id)
       /\ \A a \in artists : \E al \in albums : al.artist = a.id

\* C29: whenever no transcode, size update, initial size calculation or
\* eviction is in progress, the tracked cacheSize equals the total size of
\* the files in the cache directory.
C29_CacheSizeMatchesDirectory ==
  Quiescent => cacheSize = DirSize(cfiles)

\* C30: a lookup of the existing track that fails with an error other than
\* not-found makes processFile return a per-file error; the update branch is
\* never entered without a found row, so the process keeps running.
C30_LookupErrorKeepsRunning ==
  ~crashed

\* C28: when a scan ends completed without cancellation the published
\* ProcessedFiles equals TotalFiles, and during a scan the published
\* ProcessedFiles never decreases.
C28_PublishedProgressComplete ==
  /\ []((progress.Status = ScanStatusCompleted /\ scanpc = "exit"
           /\ cancelStatus = "none")
          => progress.ProcessedFiles = progress.TotalFiles)
  /\ [][(scanning /\ scanning')
          => progress'.ProcessedFiles >= progress.ProcessedFiles]_vars

\* C27: every admitted scan terminates: under fair scheduling it reaches a
\* terminal status and clears the scanning flag, cancelled or not.
TerminalStatuses == {ScanStatusCompleted, ScanStatusFailed, ScanStatusCancelled}
C27_AdmittedScanTerminates ==
  scanning ~> (~scanning /\ progress.Status \in TerminalStatuses)

====
